---- MODULE Spec2Model ----
(***************************************************************************)
(* Model of the FEB basketball ETL core: opponent resolution, feature      *)
(* engineering, per-player aggregation, scaling and persistence, as        *)
(* implemented under src/src.                                              *)
(*                                                                         *)
(* Numbers are exact extended rationals <<n, d>> (d > 0, lowest terms)     *)
(* with the three IEEE specials the code can produce: NaN = <<0,0>>,       *)
(* +Inf = <<1,0>>, -Inf = <<-1,0>>.  A pandas DataFrame is a record        *)
(* [columns |-> sequence of names, rows |-> sequence of rows], a row being *)
(* a function from column names to cells.                                  *)
(***************************************************************************)
EXTENDS Integers, Sequences, FiniteSets, TLC

VARIABLES
    pc,                      \* position of the run / of the component under check
    client,                  \* MongoDBClient._client: "none" | "open" | "closed"
    db,                      \* MongoDBClient._db is set
    data_players,            \* extract()['players']
    data_teams,              \* extract()['teams']
    df_teams,                \* transform: team table with team_possessions
    opponent_data,           \* transform: list of opponent links
    df,                      \* the working game-row table
    features_for_clustering, \* transform: clustering feature list of the run
    df_aggregated,           \* aggregate_by_player result (weighted mode)
    df_simple,               \* aggregate_by_player result (simple mode)
    player_info,             \* transform()['player_info']
    features_scaled,         \* transform()['features_scaled']
    features_clean,          \* transform()['features_raw']
    scaler,                  \* DataScaler.scaler: the fitted statistic
    files,                   \* output files written so far, in order
    err,                     \* exception that ended the run, "none" if none
    returned                 \* last call made on a component called on its own

vars == <<pc, client, db, data_players, data_teams, df_teams, opponent_data, df,
          features_for_clustering, df_aggregated, df_simple, player_info,
          features_scaled, features_clean, scaler, files, err, returned>>

(***************************************************************************)
(* Bounds of the model                                                     *)
(***************************************************************************)
NumMatches == 5
MaxTeamRows == 3
MaxAggRows == 3
MaxStat == 2
MaxCleanRows == 2
MaxScaleRows == 2

(***************************************************************************)
(* Sequence helpers                                                        *)
(***************************************************************************)
Range(s) == {s[i] : i \in DOMAIN s}

\* the sequence s written out as a list of its elements
Listed(s) == SubSeq(s, 1, Len(s))

RECURSIVE SeqsUpTo(_, _)
SeqsUpTo(S, n) ==
    IF n = 0 THEN {<<>>}
    ELSE LET shorter == SeqsUpTo(S, n - 1)
         IN  shorter \cup {Append(s, x) : s \in {t \in shorter : Len(t) = n - 1}, x \in S}

\* the concatenation of the sequences ss[lo], ..., ss[hi], taken by halves
RECURSIVE Concat(_, _, _)
Concat(ss, lo, hi) ==
    IF lo > hi THEN <<>>
    ELSE IF lo = hi THEN ss[lo]
    ELSE LET mid == (lo + hi) \div 2
         IN  Concat(ss, lo, mid) \o Concat(ss, mid + 1, hi)

Flatten(ss) == Concat(ss, 1, Len(ss))

\* first occurrences, in order of appearance (pandas Series.unique)
Unique(s) ==
    Flatten([i \in DOMAIN s |->
                IF \E j \in 1 .. i - 1 : s[j] = s[i] THEN <<>> ELSE <<s[i]>>])

\* ascending order of a finite set of integers (groupby sorts its keys)
RECURSIVE SortedSeq(_)
SortedSeq(S) ==
    IF S = {} THEN <<>>
    ELSE LET m == CHOOSE x \in S : \A y \in S : x <= y
         IN  <<m>> \o SortedSeq(S \ {m})

(***************************************************************************)
(* Extended rational arithmetic (numpy float semantics, without rounding)  *)
(***************************************************************************)
Abs(n) == IF n < 0 THEN -n ELSE n
Sign(n) == IF n > 0 THEN 1 ELSE IF n < 0 THEN -1 ELSE 0

RECURSIVE GCD(_, _)
GCD(a, b) == IF b = 0 THEN a ELSE GCD(b, a % b)

Q(n, d) ==
    IF d = 0 THEN <<Sign(n), 0>>
    ELSE LET g == GCD(Abs(n), Abs(d))
             s == IF d < 0 THEN -1 ELSE 1
         IN  <<(s * n) \div g, (s * d) \div g>>

NaN == <<0, 0>>
PInf == <<1, 0>>
NInf == <<-1, 0>>
Zero == <<0, 1>>
Int2Q(n) == <<n, 1>>

IsNaN(a) == a = NaN
IsInf(a) == a = PInf \/ a = NInf
IsFinite(a) == a[2] # 0

RAdd(a, b) ==
    IF IsNaN(a) \/ IsNaN(b) THEN NaN
    ELSE IF IsInf(a) /\ IsInf(b) THEN (IF a = b THEN a ELSE NaN)
    ELSE IF IsInf(a) THEN a
    ELSE IF IsInf(b) THEN b
    ELSE LET g == GCD(a[2], b[2])
         IN  Q(a[1] * (b[2] \div g) + b[1] * (a[2] \div g), (a[2] \div g) * b[2])

RNeg(a) == <<-a[1], a[2]>>
RSub(a, b) == RAdd(a, RNeg(b))
\* the product, cancelling across before multiplying; x * 0/0-like cases as in IEEE
RMul(a, b) ==
    IF a[2] = 0 \/ b[2] = 0 THEN Q(Sign(a[1]) * Sign(b[1]), 0)
    ELSE LET g1 == GCD(Abs(a[1]), b[2])
             g2 == GCD(Abs(b[1]), a[2])
         IN  Q((a[1] \div g1) * (b[1] \div g2), (a[2] \div g2) * (b[2] \div g1))
RRecip(a) == Q(a[2], a[1])
RDiv(a, b) == RMul(a, RRecip(b))

\* comparisons are False as soon as one side is NaN
RGt(a, b) ==
    IF IsNaN(a) \/ IsNaN(b) THEN FALSE
    ELSE IF a = PInf THEN b # PInf
    ELSE IF a = NInf THEN FALSE
    ELSE IF b = PInf THEN FALSE
    ELSE IF b = NInf THEN TRUE
    ELSE a[1] * b[2] > b[1] * a[2]
RLt(a, b) == RGt(b, a)
RGe(a, b) == ~IsNaN(a) /\ ~IsNaN(b) /\ ~RGt(b, a)
RLe(a, b) == RGe(b, a)

\* pandas Series.sum(): missing cells are skipped, the empty sum is 0
\* s[lo] + ... + s[hi], taken by halves
RECURSIVE SumRange(_, _, _)
SumRange(s, lo, hi) ==
    IF lo > hi THEN Zero
    ELSE IF lo = hi THEN s[lo]
    ELSE LET mid == (lo + hi) \div 2
         IN  RAdd(SumRange(s, lo, mid), SumRange(s, mid + 1, hi))

\* the sum of all cells: NaN when a cell is NaN
SumSeq(s) == SumRange(s, 1, Len(s))

SumSkipNa(s) == SumSeq(SelectSeq(s, LAMBDA x : ~IsNaN(x)))

\* pandas mean: missing cells are skipped, the mean of nothing is NaN
MeanSkipNa(s) ==
    LET present == SelectSeq(s, LAMBDA x : ~IsNaN(x))
    IN  RDiv(SumSkipNa(present), Int2Q(Len(present)))

(***************************************************************************)
(* DataFrames                                                              *)
(***************************************************************************)
EmptyFrame == [columns |-> <<>>, rows |-> <<>>]

\* pd.DataFrame(list of dicts): the columns are the keys of the records
FrameOf(cols, recs) == IF recs = <<>> THEN EmptyFrame ELSE [columns |-> cols, rows |-> recs]

HasColumn(t, c) == c \in Range(t.columns)
NumRows(t) == Len(t.rows)
Column(t, c) == [i \in DOMAIN t.rows |-> t.rows[i][c]]

\* df[c] = values: overwrites the column when present, appends it otherwise
WithColumn(t, c, F(_)) ==
    [columns |-> IF HasColumn(t, c) THEN t.columns ELSE Append(t.columns, c),
     rows    |-> Listed([i \in DOMAIN t.rows |-> (c :> F(t.rows[i])) @@ t.rows[i]])]

\* df[c] = values for each c of cols, where no value is computed from a column
\* of cols: the columns not yet present are appended in the order of cols
WithColumns(t, cols, F(_, _)) ==
    [columns |-> t.columns \o SelectSeq(cols, LAMBDA c : ~HasColumn(t, c)),
     rows    |-> Listed([i \in DOMAIN t.rows |->
                    [c \in Range(cols) |-> F(t.rows[i], c)] @@ t.rows[i]])]

\* df[mask]: the rows satisfying Keep, in order
FilterRows(t, Keep(_)) == [columns |-> t.columns, rows |-> SelectSeq(t.rows, Keep)]

\* df[cols]: the listed columns, in the order listed
SelectColumns(t, cols) ==
    [columns |-> cols,
     rows    |-> [i \in DOMAIN t.rows |-> [c \in Range(cols) |-> t.rows[i][c]]]]

(***************************************************************************)
(* Configuration (config.py)                                               *)
(***************************************************************************)
MIN_GAMES_THRESHOLD == 5
MIN_MINUTES_THRESHOLD == 0
MINUTES_NORMALIZATION == 36
SECONDS_PER_MINUTE == 60
EFFICIENCY_MULTIPLIER == 100
FREE_THROW_POSSESSION_FACTOR == Q(44, 100)
FILL_NA_VALUE == Zero
HANDLE_INFINITY == TRUE
SCALER_TYPE == "standard"

STATS_TO_NORMALIZE ==
    <<"pts", "ast", "trb", "stl", "blk", "tov",
      "fga", "fgm", "3pa", "3pm", "2pa", "2pm", "fta", "ftm">>

INTERIOR_ZONES_MADE == <<"rc_pc_m", "rc_pl_m", "rc_pr_m", "rc_mbl_m", "rc_mbr_m">>
INTERIOR_ZONES_ATTEMPTED == <<"rc_pc_a", "rc_pl_a", "rc_pr_a", "rc_mbl_a", "rc_mbr_a">>
EXTERIOR_ZONES_MADE ==
    <<"rc_mel_m", "rc_mer_m", "rc_c3l_m", "rc_c3r_m",
      "rc_ce3l_m", "rc_ce3r_m", "rc_e3l_m", "rc_e3r_m">>
EXTERIOR_ZONES_ATTEMPTED ==
    <<"rc_mel_a", "rc_mer_a", "rc_c3l_a", "rc_c3r_a",
      "rc_ce3l_a", "rc_ce3r_a", "rc_e3l_a", "rc_e3r_a">>

FEATURES_FOR_CLUSTERING ==
    <<"pts_per36", "ast_per36", "trb_per36", "stl_per36", "blk_per36", "tov_per36",
      "fga_per36", "3pa_per36", "2pa_per36",
      "fg2_pct", "fg3_pct", "ft_pct",
      "usage_2p", "usage_3p",
      "oer", "der", "true_shooting_pct",
      "orb", "drb", "pf">>

FEATURES_FOR_EDA == <<"interior_pct", "interior_freq", "exterior_pct", "exterior_freq">>

OUTPUT_SCALED_FILE == "players_features_scaled.csv"
OUTPUT_RAW_FILE == "players_features_raw.csv"
OUTPUT_AGGREGATED_FILE == "players_aggregated.csv"

(***************************************************************************)
(* FeatureEngineer (data_processing/feature_engineer.py)                   *)
(***************************************************************************)
\* mutant: the division without its guard
RatioOrZero_Unguarded(num, den) == RDiv(num, den)

\* np.where(den > 0, num / den, 0), cell by cell
RatioOrZero(num, den) == IF RGt(den, Zero) THEN RDiv(num, den) ELSE Zero

\* df[cols].sum(axis=1) for one row
RowSum(row, cols) == SumSkipNa([k \in DOMAIN cols |-> row[cols[k]]])

convert_seconds_to_minutes(t) ==
    WithColumn(t, "minutes_played", LAMBDA r : RDiv(r["minutes"], Int2Q(SECONDS_PER_MINUTE)))

\* the name f'{stat}_per{target_minutes}' for target_minutes = 36
PerName(stat) == stat \o "_per36"

\* for stat in stats_cols: if stat in df.columns: df[f'{stat}_per36'] = ...
normalize_per_minutes(t, stats_cols, target_minutes) ==
    LET present == SelectSeq(stats_cols, LAMBDA stat : HasColumn(t, stat))
        names   == Unique([k \in DOMAIN present |-> PerName(present[k])])
        StatOf(c) == CHOOSE stat \in Range(present) : PerName(stat) = c
    IN  WithColumns(t, names,
            LAMBDA r, c : RMul(RDiv(r[StatOf(c)], r["minutes_played"]),
                               Int2Q(target_minutes)))

calculate_shooting_percentages(t) ==
    WithColumns(t, <<"fg2_pct", "fg3_pct", "ft_pct">>,
        LAMBDA r, c : CASE c = "fg2_pct" -> RatioOrZero(r["2pm"], r["2pa"])
                        [] c = "fg3_pct" -> RatioOrZero(r["3pm"], r["3pa"])
                        [] c = "ft_pct"  -> RatioOrZero(r["ftm"], r["fta"]))

calculate_usage_rates(t) ==
    WithColumns(t, <<"usage_2p", "usage_3p">>,
        LAMBDA r, c : CASE c = "usage_2p" -> RatioOrZero(r["2pa"], r["fga"])
                        [] c = "usage_3p" -> RatioOrZero(r["3pa"], r["fga"]))

calculate_interior_stats(t, zones_made, zones_attempted) ==
    WithColumns(t, <<"interior_pct", "interior_freq">>,
        LAMBDA r, c :
            CASE c = "interior_pct" ->
                    RatioOrZero(RowSum(r, zones_made), RowSum(r, zones_attempted))
              [] c = "interior_freq" ->
                    RatioOrZero(RowSum(r, zones_attempted), r["fga"]))

calculate_exterior_stats(t, zones_made, zones_attempted) ==
    WithColumns(t, <<"exterior_pct", "exterior_freq">>,
        LAMBDA r, c :
            CASE c = "exterior_pct" ->
                    RatioOrZero(RowSum(r, zones_made), RowSum(r, zones_attempted))
              [] c = "exterior_freq" ->
                    RatioOrZero(RowSum(r, zones_attempted), r["fga"]))

\* mutant: a negative estimate is raised to 0
PossessionEstimate_Clamped(r) ==
    IF RLt(RAdd(RSub(RAdd(r["fga"], RMul(FREE_THROW_POSSESSION_FACTOR, r["fta"])), r["orb"]), r["tov"]), Zero)
    THEN Zero
    ELSE RAdd(RSub(RAdd(r["fga"], RMul(FREE_THROW_POSSESSION_FACTOR, r["fta"])), r["orb"]), r["tov"])

\* fga + 0.44 * fta - orb + tov
PossessionEstimate(r) ==
    RAdd(RSub(RAdd(r["fga"], RMul(FREE_THROW_POSSESSION_FACTOR, r["fta"])), r["orb"]), r["tov"])

calculate_possessions(t) == WithColumn(t, "possessions", PossessionEstimate)

calculate_oer(t) ==
    WithColumn(t, "oer",
        LAMBDA r : IF RGt(r["possessions"], Zero)
                   THEN RMul(Int2Q(EFFICIENCY_MULTIPLIER), RDiv(r["pts"], r["possessions"]))
                   ELSE Zero)

true_shooting_attempts(r) ==
    RMul(Int2Q(2), RAdd(r["fga"], RMul(FREE_THROW_POSSESSION_FACTOR, r["fta"])))

calculate_true_shooting_pct(t) ==
    WithColumn(t, "true_shooting_pct",
        LAMBDA r : RatioOrZero(r["pts"], true_shooting_attempts(r)))

\* mutant: the quotient is taken whatever the opponent possessions are
calculate_der_Unguarded(t) ==
    WithColumn(t, "der",
        LAMBDA r : RMul(Int2Q(EFFICIENCY_MULTIPLIER),
                        RDiv(r["opponent_pts"], r["opponent_possessions"])))

calculate_der(t) ==
    WithColumn(t, "der",
        LAMBDA r : IF RGt(r["opponent_possessions"], Zero)
                   THEN RMul(Int2Q(EFFICIENCY_MULTIPLIER),
                             RDiv(r["opponent_pts"], r["opponent_possessions"]))
                   ELSE Zero)

apply_all_transformations(t, stats_to_normalize, interior_zones_made, interior_zones_attempted, exterior_zones_made, exterior_zones_attempted, target_minutes) ==
    \* the table after each step, in the order the steps run
    LET s1 == convert_seconds_to_minutes(t)
        s2 == normalize_per_minutes(s1, stats_to_normalize, target_minutes)
        s3 == calculate_shooting_percentages(s2)
        s4 == calculate_usage_rates(s3)
        s5 == calculate_interior_stats(s4, interior_zones_made, interior_zones_attempted)
        s6 == IF exterior_zones_made # <<>> /\ exterior_zones_attempted # <<>>
              THEN calculate_exterior_stats(s5, exterior_zones_made, exterior_zones_attempted)
              ELSE s5
        s7 == calculate_possessions(s6)
        s8 == calculate_oer(s7)
        s9 == calculate_true_shooting_pct(s8)
        steps == <<s1, s2, s3, s4, s5, s6, s7, s8, s9>>
    IN  IF HasColumn(steps[9], "opponent_possessions") /\ HasColumn(steps[9], "opponent_pts")
        THEN calculate_der(steps[9])
        ELSE steps[9]

(***************************************************************************)
(* DataAggregator (data_processing/data_aggregator.py)                     *)
(***************************************************************************)
\* the group keys of df.groupby('player_feb_id'), sorted
GroupKeys(t) == SortedSeq({t.rows[i]["player_feb_id"] : i \in DOMAIN t.rows})

\* the rows of one group, in table order
Group(t, pid) == SelectSeq(t.rows, LAMBDA r : r["player_feb_id"] = pid)

\* the features the table has, in the order requested, without repetition
PresentFeatures(t, features) == Unique(SelectSeq(features, LAMBDA c : HasColumn(t, c)))

\* mutant: the mean of the minutes in place of their sum
total_minutes_Mean(group) == MeanSkipNa([i \in DOMAIN group |-> group[i]["minutes_played"]])

\* total_minutes = group['minutes_played'].sum()
total_minutes(group) == SumSkipNa([i \in DOMAIN group |-> group[i]["minutes_played"]])

\* mutant: the weights are dropped
weighted_mean_Unweighted(group, col) == MeanSkipNa([i \in DOMAIN group |-> group[i][col]])

\* mutant: the weighted sum is not divided by the minutes
weighted_mean_Undivided(group, col) ==
    SumSkipNa([i \in DOMAIN group |-> RMul(group[i][col], group[i]["minutes_played"])])

\* weighted_mean(group, features)[col]
weighted_mean(group, col) ==
    LET products == [i \in DOMAIN group |-> RMul(group[i][col], group[i]["minutes_played"])]
    IN  RDiv(SumSkipNa(products), total_minutes(group))

\* mutant: the sum in place of the mean
simple_mean_Sum(group, col) == SumSkipNa([i \in DOMAIN group |-> group[i][col]])

\* agg_dict[col] = 'mean'
simple_mean(group, col) == MeanSkipNa([i \in DOMAIN group |-> group[i][col]])

AggregateSimpleBranch(t, features) ==
    LET feats == PresentFeatures(t, features)
        withName == IF "player_name" \in Range(feats) THEN feats
                    ELSE Append(feats, "player_name")
        keys  == IF HasColumn(t, "minutes_played") /\ "minutes_played" \notin Range(withName)
                 THEN Append(withName, "minutes_played") ELSE withName
        cols  == <<"player_feb_id">> \o keys
        ids   == GroupKeys(t)
    IN  [columns |-> cols,
         rows |-> [k \in DOMAIN ids |->
            LET g == Group(t, ids[k])
            IN  [c \in Range(cols) |->
                   IF c = "player_feb_id" THEN ids[k]
                   ELSE IF c = "player_name" THEN g[1]["player_name"]
                   ELSE IF c = "minutes_played"
                        THEN SumSkipNa([i \in DOMAIN g |-> g[i]["minutes_played"]])
                   ELSE simple_mean(g, c)]]]

AggregateWeightedBranch(t, features) ==
    LET feats == PresentFeatures(t, features)
        keys  == Unique(<<"player_name">> \o feats \o <<"minutes_played">>)
        cols  == <<"player_feb_id">> \o keys
        ids   == GroupKeys(t)
    IN  [columns |-> cols,
         rows |-> [k \in DOMAIN ids |->
            LET g == Group(t, ids[k])
            IN  [c \in Range(cols) |->
                   IF c = "player_feb_id" THEN ids[k]
                   ELSE IF c = "minutes_played" THEN total_minutes(g)
                   ELSE IF c = "player_name" THEN g[1]["player_name"]
                   ELSE weighted_mean(g, c)]]]

aggregate_by_player(t, features, weighted) ==
    IF ~weighted \/ ~HasColumn(t, "minutes_played")
    THEN AggregateSimpleBranch(t, features)
    ELSE AggregateWeightedBranch(t, features)

(***************************************************************************)
(* DataCleaner (data_processing/data_cleaner.py)                           *)
(***************************************************************************)
\* df.groupby(player_id_col).size() for one player
GamesOf(t, pid) == Len(Group(t, pid))

\* mutant: a player with exactly min_games games is dropped
filter_by_games_played_Strict(t, min_games) ==
    FilterRows(t, LAMBDA r : GamesOf(t, r["player_feb_id"]) > min_games)

filter_by_games_played(t, min_games) ==
    FilterRows(t, LAMBDA r : GamesOf(t, r["player_feb_id"]) >= min_games)

\* df[df['minutes'] > min_minutes].copy()
filter_by_minutes(t, min_minutes) ==
    FilterRows(t, LAMBDA r : RGt(r["minutes"], min_minutes))

\* mutant: only the first missing column is reported
missing_cols_First(t, required_cols) ==
    LET missing == SelectSeq(required_cols, LAMBDA c : ~HasColumn(t, c))
    IN  IF missing = <<>> THEN <<>> ELSE <<missing[1]>>

\* missing_cols = [col for col in required_cols if col not in df.columns]
missing_cols(t, required_cols) == SelectSeq(required_cols, LAMBDA c : ~HasColumn(t, c))

\* Series.clip(lower, upper): a missing value stays missing
Clip(x, lower, upper) ==
    IF IsNaN(x) THEN x
    ELSE IF RLt(x, lower) THEN lower
    ELSE IF RGt(x, upper) THEN upper
    ELSE x

\* invalid_mask.sum() > 0 for (df[col] < 0) | (df[col] > 1)
HasInvalid(t, c) ==
    \E i \in DOMAIN t.rows : RLt(t.rows[i][c], Zero) \/ RGt(t.rows[i][c], Int2Q(1))

\* mutant: only the values above 1 are corrected
validate_percentages_UpperOnly(t, pct_cols) ==
    WithColumns(t, SelectSeq(pct_cols, LAMBDA c : HasColumn(t, c) /\ HasInvalid(t, c)),
        LAMBDA r, c : IF RGt(r[c], Int2Q(1)) THEN Int2Q(1) ELSE r[c])

\* the table df holds when validate_percentages returns; the function assigns
\* the clipped column to the df it was given and returns that same df
validate_percentages(t, pct_cols) ==
    WithColumns(t, SelectSeq(pct_cols, LAMBDA c : HasColumn(t, c) /\ HasInvalid(t, c)),
        LAMBDA r, c : Clip(r[c], Zero, Int2Q(1)))

\* df.dropna() for 'drop', df.fillna(fill_value) for 'fill'
handle_missing_values(t, strategy, fill_value) ==
    IF strategy = "drop"
    THEN FilterRows(t, LAMBDA r : \A c \in Range(t.columns) : ~IsNaN(r[c]))
    ELSE WithColumns(t, t.columns, LAMBDA r, c : IF IsNaN(r[c]) THEN fill_value ELSE r[c])

(***************************************************************************)
(* DataScaler (preprocessing/scaler.py), standard mode                     *)
(***************************************************************************)
Unfitted == [fitted |-> FALSE, mean |-> <<>>, var |-> <<>>]

\* no DataScaler object exists
NoScaler == [object |-> FALSE]

\* MinMaxScaler(), not fitted
UnfittedMinMax == [fitted |-> FALSE, min |-> <<>>, max |-> <<>>]

\* mutant: an unknown type gives the standard scaler
DataScaler_Fallback(scaler_type) ==
    IF scaler_type = "minmax"
    THEN [raised |-> "none", scaler |-> UnfittedMinMax]
    ELSE [raised |-> "none", scaler |-> Unfitted]

\* DataScaler.__init__: the scaler object made, or the exception raised
DataScaler(scaler_type) ==
    IF scaler_type = "standard" THEN [raised |-> "none", scaler |-> Unfitted]
    ELSE IF scaler_type = "minmax" THEN [raised |-> "none", scaler |-> UnfittedMinMax]
    ELSE [raised |-> "ValueError", scaler |-> NoScaler]

\* mutant: the infinite cells are made missing after the missing cells were filled
CleanCell_FillFirst(x, handle_infinity, fill_na) ==
    LET y == IF IsNaN(x) THEN fill_na ELSE x
    IN  IF handle_infinity /\ IsInf(y) THEN NaN ELSE y

\* replace([inf, -inf], nan) when handle_infinity, then fillna(fill_na)
CleanCell(x, handle_infinity, fill_na) ==
    LET y == IF handle_infinity /\ IsInf(x) THEN NaN ELSE x
    IN  IF IsNaN(y) THEN fill_na ELSE y

CleanFrame(t, handle_infinity, fill_na) ==
    [columns |-> t.columns,
     rows    |-> [i \in DOMAIN t.rows |->
                    [c \in Range(t.columns) |-> CleanCell(t.rows[i][c], handle_infinity, fill_na)]]]

ColumnMean(t, c) == RDiv(SumSeq(Column(t, c)), Int2Q(NumRows(t)))

\* population variance, as StandardScaler fits it
ColumnVar(t, c) ==
    LET m == ColumnMean(t, c)
        sq == [i \in DOMAIN t.rows |-> RMul(RSub(t.rows[i][c], m), RSub(t.rows[i][c], m))]
    IN  RDiv(SumSeq(sq), Int2Q(NumRows(t)))

FitStandard(t) ==
    [fitted |-> TRUE,
     mean   |-> [c \in Range(t.columns) |-> ColumnMean(t, c)],
     var    |-> [c \in Range(t.columns) |-> ColumnVar(t, c)]]

\* A scaled cell is (x - mean) / sqrt(var), kept as the pair of the deviation and
\* the variance it is divided by the root of; a zero variance scales by 1.
ScaledCell(x, mean, var) ==
    [dev |-> RSub(x, mean), var |-> IF var = Zero THEN Int2Q(1) ELSE var]

ApplyStandard(params, t) ==
    [columns |-> t.columns,
     rows    |-> [i \in DOMAIN t.rows |->
                    [c \in Range(t.columns) |->
                        ScaledCell(t.rows[i][c], params.mean[c], params.var[c])]]]

\* DataScaler.fit_transform: the scaled table, the clean table, the fitted statistic
fit_transform(t, handle_infinity, fill_na) ==
    LET df_clean == CleanFrame(t, handle_infinity, fill_na)
        params   == FitStandard(df_clean)
    IN  [scaled |-> ApplyStandard(params, df_clean), clean |-> df_clean, params |-> params]

\* sklearn refuses a table without rows and a table with an infinite cell
ScalerRejects(t) ==
    NumRows(t) = 0 \/ \E i \in DOMAIN t.rows : \E c \in Range(t.columns) : IsInf(t.rows[i][c])

\* mutant: transform fits the statistic again, on the table it is given
transform_Refit(sc, t, handle_infinity, fill_na) ==
    [scaled |-> fit_transform(t, handle_infinity, fill_na).scaled,
     params |-> fit_transform(t, handle_infinity, fill_na).params]

\* DataScaler.transform: the scaled table, and the statistic the scaler holds
\* afterwards (self.scaler.transform reads mean_ and scale_, it assigns nothing)
transform(sc, t, handle_infinity, fill_na) ==
    [scaled |-> ApplyStandard(sc, CleanFrame(t, handle_infinity, fill_na)), params |-> sc]

\* mutant: the mean is not added back
InverseCell_NoMean(y, mean, var) == y.dev

\* x_scaled * scale_ + mean_ for x_scaled = dev / sqrt(y.var): the roots cancel
\* when the cell was scaled by the variance of this fit; if not, the value
\* dev * sqrt(scale^2 / y.var) + mean is kept as the terms it is made of
InverseCell(y, mean, var) ==
    IF y.var = (IF var = Zero THEN Int2Q(1) ELSE var)
    THEN RAdd(y.dev, mean)
    ELSE [dev |-> y.dev, var |-> y.var, scale2 |-> var, mean |-> mean]

\* DataScaler.inverse_transform: no cleaning, the columns of the scaled table
inverse_transform(sc, t) ==
    [columns |-> t.columns,
     rows    |-> [i \in DOMAIN t.rows |->
                    [c \in Range(t.columns) |->
                        InverseCell(t.rows[i][c], sc.mean[c], sc.var[c])]]]

(***************************************************************************)
(* The database content a run can meet                                     *)
(***************************************************************************)
Min(a, b) == IF a < b THEN a ELSE b

Matches == 1 .. NumMatches
PlayerIds == {1, 2}
PlayerTeam(p) == p
PlayerName(p) == IF p = 1 THEN "Ana" ELSE "Berta"

ID_COLUMNS == <<"player_feb_id", "player_name", "team_feb_id", "match_feb_id">>
RAW_STATS ==
    <<"minutes", "pts", "ast", "trb", "stl", "blk", "tov", "fga", "fgm",
      "3pa", "3pm", "2pa", "2pm", "fta", "ftm", "orb", "drb", "pf">>
ZONE_COLUMNS ==
    INTERIOR_ZONES_MADE \o INTERIOR_ZONES_ATTEMPTED \o
    EXTERIOR_ZONES_MADE \o EXTERIOR_ZONES_ATTEMPTED
PLAYER_COLUMNS == ID_COLUMNS \o RAW_STATS \o ZONE_COLUMNS
TEAM_COLUMNS == <<"team_feb_id", "match_feb_id", "pts", "fga", "fta", "orb", "tov">>

\* Two box-score lines.  Line 0 is the worked example of the possession formula
\* (fga 10, fta 5, orb 2, tov 3, pts 20); line 1 is a game without a shot, in
\* which every ratio has a zero denominator and the possession estimate is -1.
StatLine(p, line) ==
    IF line = 0
    THEN ("pts" :> 20) @@ ("ast" :> p) @@ ("trb" :> 2 + p) @@ ("stl" :> 1) @@ ("blk" :> p - 1) @@
         ("tov" :> 3) @@ ("fga" :> 10) @@ ("fgm" :> 7) @@
         ("3pa" :> 4) @@ ("3pm" :> 3) @@ ("2pa" :> 6) @@ ("2pm" :> 4) @@
         ("fta" :> 5) @@ ("ftm" :> 3) @@ ("orb" :> 2) @@ ("drb" :> p) @@ ("pf" :> p) @@
         ("rc_pc_a" :> 4) @@ ("rc_pc_m" :> 3) @@ ("rc_mbr_a" :> 2) @@ ("rc_mbr_m" :> 1) @@
         ("rc_mel_a" :> 3) @@ ("rc_mel_m" :> 2) @@ ("rc_e3r_a" :> 1) @@ ("rc_e3r_m" :> 1)
    ELSE ("ast" :> 1) @@ ("trb" :> 1) @@ ("orb" :> 1) @@ ("pf" :> 2 * p)

\* the box score of player p in match m; seconds = 0 marks a game not played
PlayerStat(p, m, seconds) ==
    LET n == StatLine(p, (p + m) % 2)
    IN  [c \in Range(PLAYER_COLUMNS) |->
            IF c = "player_feb_id" THEN p
            ELSE IF c = "player_name" THEN PlayerName(p)
            ELSE IF c = "team_feb_id" THEN PlayerTeam(p)
            ELSE IF c = "match_feb_id" THEN m
            ELSE IF c = "minutes" THEN Int2Q(seconds)
            ELSE IF c \in DOMAIN n THEN Int2Q(n[c])
            ELSE Zero]

\* player 2 always plays 10 minutes, player 1 plays 20 in odd matches
PlayedSeconds(p, m) == 600 * (1 + ((p * m) % 2))

\* the documents of the players collection: player p played matches 1 .. games[p];
\* player 2 is also listed, with no playing time, for the match after its last
PlayerDocs(games) ==
    LET Plays(p, m) == m <= games[p] \/ (p = 2 /\ m = games[p] + 1)
        Doc(p, m) == PlayerStat(p, m, IF m <= games[p] THEN PlayedSeconds(p, m) ELSE 0)
    IN  Flatten([m \in Matches |->
                    Flatten([p \in 1 .. 2 |-> IF Plays(p, m) THEN <<Doc(p, m)>> ELSE <<>>])])

\* the team line of team t in match m: 75, 80, 85, ... possessions for teams
\* 1, 2, 3, ...; team 2 ends match 2 with a negative estimate (-10)
TeamStat(t, m) ==
    LET dead == t = 2 /\ m = 2
        n == ("team_feb_id" :> t) @@ ("match_feb_id" :> m)
        v == ("pts" :> 60 + 5 * t + m) @@
             ("fga" :> IF dead THEN 0 ELSE 60) @@
             ("fta" :> IF dead THEN 0 ELSE 25) @@
             ("orb" :> 10) @@
             ("tov" :> IF dead THEN 0 ELSE 9 + 5 * t)
    IN  [c \in Range(TEAM_COLUMNS) |-> IF c \in DOMAIN n THEN n[c] ELSE Int2Q(v[c])]

\* the documents of the teams collection: match m has rows for teams 1 .. count[m]
TeamDocs(count) ==
    Flatten([m \in Matches |-> [t \in 1 .. count[m] |-> TeamStat(t, m)]])

GameCounts == {0, 1, MIN_GAMES_THRESHOLD - 1, MIN_GAMES_THRESHOLD, NumMatches} \cap (0 .. NumMatches)
GameChoices == [PlayerIds -> GameCounts]

\* every match has the same number of team rows, but for at most one match
TeamRowChoices ==
    {[m \in Matches |-> IF m = odd THEN k ELSE base] :
        base \in 0 .. MaxTeamRows, k \in 0 .. MaxTeamRows, odd \in Matches}

(***************************************************************************)
(* MongoDBClient.find and DataLoader (database/mongo_client.py,            *)
(* data_processing/data_loader.py)                                         *)
(***************************************************************************)
\* mutant: the players query without its 'minutes' condition
load_players_statistics_NoQuery(docs) == FrameOf(PLAYER_COLUMNS, docs)

\* the extract query of the players collection: 'minutes': {'$gt': 0}
load_players_statistics(docs) ==
    FrameOf(PLAYER_COLUMNS, SelectSeq(docs, LAMBDA d : RGt(d["minutes"], Zero)))

load_teams_statistics(docs) == FrameOf(TEAM_COLUMNS, docs)

(***************************************************************************)
(* ETLPipeline.transform (pipeline/etl_pipeline.py)                        *)
(***************************************************************************)
TeamPossessions(t) == WithColumn(t, "team_possessions", PossessionEstimate)

\* teams_in_match = df_teams[df_teams['match_feb_id'] == match_id]
TeamsInMatch(t, match_id) == SelectSeq(t.rows, LAMBDA r : r["match_feb_id"] = match_id)

\* mutant: the team's own row is taken for the opponent's
OtherTeams_SameTeam(teams_in_match, team_row) ==
    SelectSeq(teams_in_match, LAMBDA r : r["team_feb_id"] = team_row["team_feb_id"])

\* the rows of the other teams: teams_in_match[team_feb_id != team_row.team_feb_id]
OtherTeams(teams_in_match, team_row) ==
    SelectSeq(teams_in_match, LAMBDA r : r["team_feb_id"] # team_row["team_feb_id"])

OpponentLink(match_id, team_row, opponent_row) ==
    [match_feb_id |-> match_id,
     team_feb_id |-> team_row["team_feb_id"],
     opponent_possessions |-> opponent_row["team_possessions"],
     opponent_pts |-> opponent_row["pts"]]

\* the links of one match (lines 118-128)
MatchLinks(t, match_id) ==
    LET teams_in_match == TeamsInMatch(t, match_id)
    IN  IF Len(teams_in_match) = 2
        THEN [k \in 1 .. 2 |->
                OpponentLink(match_id, teams_in_match[k],
                             OtherTeams(teams_in_match, teams_in_match[k])[1])]
        ELSE <<>>

\* .iloc[0] of an empty selection raises IndexError
ResolveRaises(t, match_ids) ==
    \E k \in DOMAIN match_ids :
        LET teams_in_match == TeamsInMatch(t, match_ids[k])
        IN  /\ Len(teams_in_match) = 2
            /\ \E j \in 1 .. 2 : OtherTeams(teams_in_match, teams_in_match[j]) = <<>>

\* opponent_data after the loop over the matches (lines 115-128)
ResolveOpponents(t, match_ids) ==
    Flatten([k \in DOMAIN match_ids |-> MatchLinks(t, match_ids[k])])

\* mutant: the join is on the match alone
MatchingLinks_MatchOnly(links, r) ==
    SelectSeq(links, LAMBDA l : l.match_feb_id = r["match_feb_id"])

\* df.merge(df_opponents, on=['match_feb_id', 'team_feb_id'], how='left')
MatchingLinks(links, r) ==
    SelectSeq(links, LAMBDA l : l.match_feb_id = r["match_feb_id"]
                                /\ l.team_feb_id = r["team_feb_id"])

Joined(r, poss, pts) == ("opponent_possessions" :> poss) @@ ("opponent_pts" :> pts) @@ r

\* the rows a left join gives for the game-row r: one per matching link, or
\* one with both opponent fields set to `missing` when no link matches
LeftJoinRow(r, links, missing) ==
    LET found == MatchingLinks(links, r)
    IN  IF found = <<>> THEN <<Joined(r, missing, missing)>>
        ELSE [k \in DOMAIN found |->
                Joined(r, found[k].opponent_possessions, found[k].opponent_pts)]

\* mutant: a game-row without a link gets zeros for the opponent fields
MergeRows_FillZero(rows, links) ==
    Flatten([i \in DOMAIN rows |-> LeftJoinRow(rows[i], links, Zero)])

\* how='left': a game-row without a link keeps NaN in the opponent fields
MergeRows(rows, links) ==
    Flatten([i \in DOMAIN rows |-> LeftJoinRow(rows[i], links, NaN)])

MergeOpponents(t, links) ==
    [columns |-> t.columns \o <<"opponent_possessions", "opponent_pts">>,
     rows    |-> MergeRows(t.rows, links)]

\* lines 153-161: the clustering features of the run
ClusteringFeatures(t) ==
    IF HasColumn(t, "opponent_possessions") /\ HasColumn(t, "opponent_pts") /\ HasColumn(t, "der")
    THEN IF "der" \in Range(FEATURES_FOR_CLUSTERING) THEN FEATURES_FOR_CLUSTERING
         ELSE Append(FEATURES_FOR_CLUSTERING, "der")
    ELSE SelectSeq(FEATURES_FOR_CLUSTERING, LAMBDA f : f # "der")

\* lines 164-170: clustering features, then the EDA features the table has
AllFeaturesToAggregate(t, clustering) ==
    LET eda == SelectSeq(FEATURES_FOR_EDA, LAMBDA f : HasColumn(t, f))
    IN  clustering \o SelectSeq(eda, LAMBDA f : f \notin Range(clustering))

\* mutant: the scaled rows are joined to the player rows in reverse order
FilesToSave_Reversed(info, scaled, clean, aggregated) ==
    <<[name  |-> OUTPUT_SCALED_FILE,
       table |-> [columns |-> info.columns \o scaled.columns,
                  rows    |-> [i \in DOMAIN info.rows |->
                                 info.rows[i] @@ scaled.rows[Len(scaled.rows) + 1 - i]]]],
      [name |-> OUTPUT_RAW_FILE, table |-> clean],
      [name |-> OUTPUT_AGGREGATED_FILE, table |-> aggregated]>>

\* ETLPipeline.load: the files handed to save_multiple_csv, in dictionary order
FilesToSave(info, scaled, clean, aggregated) ==
    <<[name  |-> OUTPUT_SCALED_FILE,
       table |-> [columns |-> info.columns \o scaled.columns,
                  rows    |-> [i \in DOMAIN info.rows |-> info.rows[i] @@ scaled.rows[i]]]],
      [name |-> OUTPUT_RAW_FILE, table |-> clean],
      [name |-> OUTPUT_AGGREGATED_FILE, table |-> aggregated]>>

(***************************************************************************)
(* ETLPipeline.run, step by step                                           *)
(***************************************************************************)
NoErr == [type |-> "none", at |-> "none"]

\* no component has been called on its own
NoCall == [op |-> "none"]

\* the call op(arg, params) and what it returned
Call(op, arg, params, value) == [op |-> op, arg |-> arg, params |-> params, value |-> value]

Tables == <<data_players, data_teams, df_teams, opponent_data, df,
            features_for_clustering, df_aggregated, df_simple>>
Outputs == <<player_info, features_scaled, features_clean, scaler>>
Mongo == <<client, db>>

NothingYet ==
    /\ client = "none"
    /\ db = FALSE
    /\ data_players = EmptyFrame
    /\ data_teams = EmptyFrame
    /\ df_teams = EmptyFrame
    /\ opponent_data = <<>>
    /\ df = EmptyFrame
    /\ features_for_clustering = <<>>
    /\ df_aggregated = EmptyFrame
    /\ df_simple = EmptyFrame
    /\ player_info = EmptyFrame
    /\ features_scaled = EmptyFrame
    /\ features_clean = EmptyFrame
    /\ scaler = Unfitted
    /\ files = <<>>
    /\ err = NoErr
    /\ returned = NoCall

Init == pc = "start" /\ NothingYet

\* mutant: no finally clause, the exception leaves run at once
Raise_NoFinally(type, at) == err' = [type |-> type, at |-> at] /\ pc' = "failed"

\* an exception inside the try block of run: control goes to the finally clause
Raise(type, at) == err' = [type |-> type, at |-> at] /\ pc' = "finally"

\* run, line 249: connect() returned True
Connect ==
    /\ pc = "start"
    /\ client' = "open"
    /\ db' = TRUE
    /\ pc' = "connected"
    /\ UNCHANGED <<returned, Tables, Outputs, files, err>>

\* mutant: run goes on to extract after connect() returned False
ConnectFails_Continues ==
    /\ pc = "start"
    /\ client' = "open"
    /\ db' = TRUE
    /\ err' = [type |-> "RuntimeError", at |-> "connect"]
    /\ pc' = "connected"
    /\ UNCHANGED <<returned, Tables, Outputs, files>>

\* run, lines 249-250: connect() returned False, either before a client exists
\* (MongoClient raised) or after it (the ping raised); run raises RuntimeError
ConnectFails ==
    /\ pc = "start"
    /\ \E made \in BOOLEAN :
          /\ client' = IF made THEN "open" ELSE "none"
          /\ db' = made
    /\ err' = [type |-> "RuntimeError", at |-> "connect"]
    /\ pc' = "failed"
    /\ UNCHANGED <<returned, Tables, Outputs, files>>

\* extract, lines 72-89
Extract ==
    /\ pc = "connected"
    /\ \E games \in GameChoices, count \in TeamRowChoices :
          /\ data_players' = load_players_statistics(PlayerDocs(games))
          /\ data_teams' = load_teams_statistics(TeamDocs(count))
    /\ pc' = "extracted"
    /\ UNCHANGED <<returned, Mongo, df_teams, opponent_data, df, features_for_clustering,
                   df_aggregated, df_simple, Outputs, files, err>>

\* extract: the query itself fails
ExtractFails ==
    /\ pc = "connected"
    /\ Raise("PyMongoError", "extract")
    /\ UNCHANGED <<returned, Mongo, Tables, Outputs, files>>

\* transform, lines 103-113
ComputeTeamPossessions ==
    /\ pc = "extracted"
    /\ df' = data_players
    /\ IF HasColumn(data_teams, "fga")
       THEN /\ df_teams' = TeamPossessions(data_teams)
            /\ pc' = "possessions"
            /\ err' = err
       ELSE /\ Raise("KeyError", "team_possessions")
            /\ df_teams' = df_teams
    /\ UNCHANGED <<returned, Mongo, data_players, data_teams, opponent_data, features_for_clustering,
                   df_aggregated, df_simple, Outputs, files>>

\* transform, lines 116-130
ResolveOpponentsStep ==
    /\ pc = "possessions"
    /\ IF ~HasColumn(df, "match_feb_id")
       THEN Raise("KeyError", "resolve") /\ opponent_data' = opponent_data
       ELSE IF ResolveRaises(df_teams, Unique(Column(df, "match_feb_id")))
       THEN Raise("IndexError", "resolve") /\ opponent_data' = opponent_data
       ELSE /\ opponent_data' = ResolveOpponents(df_teams, Unique(Column(df, "match_feb_id")))
            /\ pc' = "resolved"
            /\ err' = err
    /\ UNCHANGED <<returned, Mongo, data_players, data_teams, df_teams, df, features_for_clustering,
                   df_aggregated, df_simple, Outputs, files>>

\* transform, line 133: pd.DataFrame([]) has no columns to merge on
MergeStep ==
    /\ pc = "resolved"
    /\ IF opponent_data = <<>>
       THEN Raise("KeyError", "merge") /\ df' = df
       ELSE /\ df' = MergeOpponents(df, opponent_data)
            /\ pc' = "merged"
            /\ err' = err
    /\ UNCHANGED <<returned, Mongo, data_players, data_teams, df_teams, opponent_data,
                   features_for_clustering, df_aggregated, df_simple, Outputs, files>>

\* transform, line 137
FilterGames ==
    /\ pc = "merged"
    /\ df' = filter_by_games_played(df, MIN_GAMES_THRESHOLD)
    /\ pc' = "filtered"
    /\ UNCHANGED <<returned, Mongo, data_players, data_teams, df_teams, opponent_data,
                   features_for_clustering, df_aggregated, df_simple, Outputs, files, err>>

\* transform, lines 140-148
Engineer ==
    /\ pc = "filtered"
    /\ df' = apply_all_transformations(df, STATS_TO_NORMALIZE,
                INTERIOR_ZONES_MADE, INTERIOR_ZONES_ATTEMPTED,
                EXTERIOR_ZONES_MADE, EXTERIOR_ZONES_ATTEMPTED, MINUTES_NORMALIZATION)
    /\ pc' = "engineered"
    /\ UNCHANGED <<returned, Mongo, data_players, data_teams, df_teams, opponent_data,
                   features_for_clustering, df_aggregated, df_simple, Outputs, files, err>>

\* transform, lines 153-177.  Over a table with no row groupby.apply has no group
\* to call weighted_mean on: depending on the pandas build the call raises or
\* returns a table with no row.
Aggregate ==
    /\ pc = "engineered"
    /\ features_for_clustering' = ClusteringFeatures(df)
    /\ \/ /\ df_aggregated' = aggregate_by_player(df,
                 AllFeaturesToAggregate(df, ClusteringFeatures(df)), TRUE)
          /\ pc' = "aggregated"
          /\ err' = err
       \/ /\ NumRows(df) = 0
          /\ Raise("ValueError", "aggregate")
          /\ df_aggregated' = df_aggregated
    /\ UNCHANGED <<returned, Mongo, data_players, data_teams, df_teams, opponent_data, df,
                   df_simple, Outputs, files>>

\* transform, lines 180-198.  StandardScaler refuses a table with no row.
Scale ==
    /\ pc = "aggregated"
    /\ IF \E c \in Range(<<"player_feb_id", "player_name">> \o features_for_clustering) :
             ~HasColumn(df_aggregated, c)
       THEN Raise("KeyError", "select") /\ UNCHANGED Outputs
       ELSE IF NumRows(df_aggregated) = 0
       THEN Raise("ValueError", "scale") /\ UNCHANGED Outputs
       ELSE LET fitted == fit_transform(SelectColumns(df_aggregated, features_for_clustering),
                                        HANDLE_INFINITY, FILL_NA_VALUE)
            IN  /\ player_info' = SelectColumns(df_aggregated, <<"player_feb_id", "player_name">>)
                /\ features_scaled' = fitted.scaled
                /\ features_clean' = fitted.clean
                /\ scaler' = fitted.params
                /\ pc' = "transformed"
                /\ err' = err
    /\ UNCHANGED <<returned, Mongo, Tables, files>>

\* load / save_multiple_csv: one more file written
SaveCsv ==
    /\ pc = "transformed"
    /\ files' = Append(files,
          FilesToSave(player_info, features_scaled, features_clean, df_aggregated)[Len(files) + 1])
    /\ pc' = IF Len(files) + 1 = 3 THEN "loaded" ELSE "transformed"
    /\ UNCHANGED <<returned, Mongo, Tables, Outputs, err>>

\* save_csv: mkdir or to_csv raises for the next file
SaveCsvFails ==
    /\ pc = "transformed"
    /\ Raise("OSError", "load")
    /\ UNCHANGED <<returned, Mongo, Tables, Outputs, files>>

\* run, line 261: return dataframes
Return ==
    /\ pc = "loaded"
    /\ pc' = "finally"
    /\ UNCHANGED <<returned, Mongo, Tables, Outputs, files, err>>

\* run, lines 263-264, and MongoDBClient.disconnect
Disconnect ==
    /\ pc = "finally"
    /\ client' = IF client = "open" THEN "closed" ELSE client
    /\ pc' = IF err = NoErr THEN "done" ELSE "failed"
    /\ UNCHANGED <<returned, db, Tables, Outputs, files, err>>

Next ==
    \/ Connect
    \/ ConnectFails
    \/ Extract
    \/ ExtractFails
    \/ ComputeTeamPossessions
    \/ ResolveOpponentsStep
    \/ MergeStep
    \/ FilterGames
    \/ Engineer
    \/ Aggregate
    \/ Scale
    \/ SaveCsv
    \/ SaveCsvFails
    \/ Return
    \/ Disconnect

Spec == Init /\ [][Next]_vars

(***************************************************************************)
(* The aggregator on its own: both modes on the same game-row table        *)
(***************************************************************************)
AGG_COLUMNS == <<"player_feb_id", "player_name", "minutes_played", "fg2_pct">>
\* the features asked for; the table has no 'der' column
AGG_FEATURES == <<"fg2_pct", "der">>
AggMinutes == {0, 1, 2}
AggValues == {Q(1, 2), Int2Q(1)}

AggRow(p, m, v) ==
    ("player_feb_id" :> p) @@ ("player_name" :> PlayerName(p)) @@
    ("minutes_played" :> Int2Q(m)) @@ ("fg2_pct" :> v)

AggRows == {AggRow(p, m, v) : p \in PlayerIds, m \in AggMinutes, v \in AggValues}

\* tables of 1 .. MaxAggRows game-rows, with and without the minutes_played column
AggInputs ==
    LET full == {[columns |-> AGG_COLUMNS, rows |-> s] :
                    s \in SeqsUpTo(AggRows, MaxAggRows) \ {<<>>}}
    IN  full \cup {SelectColumns(t, <<"player_feb_id", "player_name", "fg2_pct">>) : t \in full}

InitAgg ==
    /\ pc = "aggregate"
    /\ df \in AggInputs
    /\ client = "none"
    /\ db = FALSE
    /\ data_players = EmptyFrame
    /\ data_teams = EmptyFrame
    /\ df_teams = EmptyFrame
    /\ opponent_data = <<>>
    /\ features_for_clustering = AGG_FEATURES
    /\ df_aggregated = EmptyFrame
    /\ df_simple = EmptyFrame
    /\ player_info = EmptyFrame
    /\ features_scaled = EmptyFrame
    /\ features_clean = EmptyFrame
    /\ scaler = Unfitted
    /\ files = <<>>
    /\ err = NoErr
    /\ returned = NoCall

\* aggregate_by_player(df, features), weighted=True
AggregateWeighted ==
    /\ pc = "aggregate"
    /\ df_aggregated = EmptyFrame
    /\ df_aggregated' = aggregate_by_player(df, features_for_clustering, TRUE)
    /\ UNCHANGED <<returned, pc, Mongo, data_players, data_teams, df_teams, opponent_data, df,
                   features_for_clustering, df_simple, Outputs, files, err>>

\* aggregate_by_player(df, features, weighted=False)
AggregateSimple ==
    /\ pc = "aggregate"
    /\ df_simple = EmptyFrame
    /\ df_simple' = aggregate_by_player(df, features_for_clustering, FALSE)
    /\ UNCHANGED <<returned, pc, Mongo, data_players, data_teams, df_teams, opponent_data, df,
                   features_for_clustering, df_aggregated, Outputs, files, err>>

NextAgg == AggregateWeighted \/ AggregateSimple

SpecAgg == InitAgg /\ [][NextAgg]_vars

(***************************************************************************)
(* The feature engineer on its own: one game-row, every column group       *)
(***************************************************************************)

FEGroups ==
    {{"2pa", "2pm", "fga"},
     {"3pa", "3pm", "fga"},
     {"fta", "ftm", "fga", "pts", "orb", "tov"},
     {"rc_pc_m", "rc_mbr_m", "rc_pc_a", "rc_mbr_a", "fga"},
     {"rc_mel_m", "rc_e3r_m", "rc_mel_a", "rc_e3r_a", "fga"},
     {"minutes", "pts", "ast"}}

\* the rows in which the columns of one group take every value of 0 .. MaxStat
\* and every other counting stat is 0 (600 seconds played unless minutes vary)
FERowsVarying(G) ==
    {[c \in Range(PLAYER_COLUMNS) |->
        IF c \in G THEN Int2Q(v[c])
        ELSE IF c = "minutes" THEN Int2Q(600)
        ELSE IF c \in Range(ID_COLUMNS) THEN PlayerStat(1, 1, 0)[c]
        ELSE Zero] : v \in [G -> 0 .. MaxStat]}

FERows == UNION {FERowsVarying(G) : G \in FEGroups}

\* the same rows after an opponent join, linked or not
FEOpponentValues == {NaN, Int2Q(-1)} \cup {Int2Q(n) : n \in 0 .. MaxStat}
FEJoinedRows ==
    {Joined(r, poss, pts) : r \in FERowsVarying({"pts"}),
                            poss \in FEOpponentValues, pts \in FEOpponentValues}

\* tables with only one of the two opponent columns
FEHalfJoined ==
    {[columns |-> Append(PLAYER_COLUMNS, c), rows |-> <<(c :> v) @@ r>>] :
        c \in {"opponent_possessions", "opponent_pts"},
        v \in FEOpponentValues, r \in FERowsVarying({"pts"})}

FEInputs ==
    {[columns |-> PLAYER_COLUMNS, rows |-> <<r>>] : r \in FERows}
    \cup {[columns |-> PLAYER_COLUMNS \o <<"opponent_possessions", "opponent_pts">>,
           rows |-> <<r>>] : r \in FEJoinedRows}
    \cup FEHalfJoined

InitFE ==
    /\ pc = "filtered"
    /\ df \in FEInputs
    /\ client = "none"
    /\ db = FALSE
    /\ data_players = EmptyFrame
    /\ data_teams = EmptyFrame
    /\ df_teams = EmptyFrame
    /\ opponent_data = <<>>
    /\ features_for_clustering = <<>>
    /\ df_aggregated = EmptyFrame
    /\ df_simple = EmptyFrame
    /\ player_info = EmptyFrame
    /\ features_scaled = EmptyFrame
    /\ features_clean = EmptyFrame
    /\ scaler = Unfitted
    /\ files = <<>>
    /\ err = NoErr
    /\ returned = NoCall

NextFE == Engineer

SpecFE == InitFE /\ [][NextFE]_vars

(***************************************************************************)
(* The run up to the feature engineer, entered at its start or, with the   *)
(* tables of the engineer on its own, at the engineer                      *)
(***************************************************************************)
InitDer == Init \/ InitFE

NextDer ==
    \/ Connect
    \/ Extract
    \/ ComputeTeamPossessions
    \/ ResolveOpponentsStep
    \/ MergeStep
    \/ FilterGames
    \/ Engineer

SpecDer == InitDer /\ [][NextDer]_vars

(***************************************************************************)
(* The cleaner on its own: any sequence of calls on one table              *)
(***************************************************************************)
CLEAN_COLUMNS == <<"player_feb_id", "minutes", "fg_pct">>

CleanRow(p, seconds, pct) ==
    [c \in Range(CLEAN_COLUMNS) |->
        IF c = "player_feb_id" THEN Int2Q(p) ELSE IF c = "minutes" THEN Int2Q(seconds) ELSE pct]

\* game-rows of two players, played or not, with a missing, a negative, a
\* valid and an excessive percentage; and rows at the ends of [0, 1] and beyond
CleanRows ==
    {CleanRow(w[1], w[2], v) : w \in {<<1, 0>>, <<1, 600>>, <<2, 600>>},
                               v \in {NaN, Q(-1, 2), Q(1, 2), Q(3, 2)}}
    \cup {CleanRow(1, 600, v) : v \in {Zero, Int2Q(1), PInf, NInf}}

\* tables of all three columns, and shorter tables without the minutes column
CleanInputs ==
    {[columns |-> CLEAN_COLUMNS, rows |-> rows] : rows \in SeqsUpTo(CleanRows, MaxCleanRows)}
    \cup {SelectColumns([columns |-> CLEAN_COLUMNS, rows |-> rows], <<"player_feb_id", "fg_pct">>) :
             rows \in SeqsUpTo(CleanRows, MaxCleanRows - 1)}

\* everything a call on the cleaner leaves alone, the table passed apart
CleanerFrame ==
    <<pc, Mongo, data_players, data_teams, df_teams, opponent_data,
      features_for_clustering, df_aggregated, df_simple, Outputs, files>>

InitClean ==
    /\ pc = "cleaner"
    /\ df \in CleanInputs
    /\ client = "none"
    /\ db = FALSE
    /\ data_players = EmptyFrame
    /\ data_teams = EmptyFrame
    /\ df_teams = EmptyFrame
    /\ opponent_data = <<>>
    /\ features_for_clustering = <<>>
    /\ df_aggregated = EmptyFrame
    /\ df_simple = EmptyFrame
    /\ player_info = EmptyFrame
    /\ features_scaled = EmptyFrame
    /\ features_clean = EmptyFrame
    /\ scaler = Unfitted
    /\ files = <<>>
    /\ err = NoErr
    /\ returned = NoCall

\* the call op(df, params) returned value, or raised type
Returns(op, params, value) ==
    /\ returned' = [op |-> op, arg |-> df, params |-> params, value |-> value]
    /\ err' = NoErr

Raises(op, params, type) ==
    /\ returned' = [op |-> op, arg |-> df, params |-> params, value |-> "none"]
    /\ err' = [type |-> type, at |-> op]

\* the lists of required columns asked for
RequiredColumnLists ==
    {<<>>, <<"minutes">>, <<"minutes", "fg_pct">>, <<"age", "minutes">>,
     <<"weight", "minutes", "age">>}

\* raise ValueError(f"Falten columnes requerides: {missing_cols}"): the list
\* in the message is kept as the value of the call
ValidateRequiredColumns ==
    /\ pc = "cleaner"
    /\ \E required_cols \in RequiredColumnLists :
          IF missing_cols(df, required_cols) # <<>>
          THEN /\ returned' = Call("validate_required_columns", df, <<required_cols>>,
                                   missing_cols(df, required_cols))
               /\ err' = [type |-> "ValueError", at |-> "validate_required_columns"]
          ELSE Returns("validate_required_columns", <<required_cols>>, TRUE)
    /\ UNCHANGED <<CleanerFrame, df>>

\* df[col] = df[col].clip(0, 1) is an assignment to the table passed
ValidatePercentages ==
    /\ pc = "cleaner"
    /\ \E pct_cols \in {<<"fg_pct">>, <<"ft_pct", "fg_pct">>} :
          /\ df' = validate_percentages(df, pct_cols)
          /\ Returns("validate_percentages", <<pct_cols>>, validate_percentages(df, pct_cols))
    /\ UNCHANGED CleanerFrame

FilterByMinutes ==
    /\ pc = "cleaner"
    /\ \E min_minutes \in {Int2Q(MIN_MINUTES_THRESHOLD), Int2Q(600)} :
          IF ~HasColumn(df, "minutes")
          THEN Raises("filter_by_minutes", <<min_minutes>>, "KeyError")
          ELSE Returns("filter_by_minutes", <<min_minutes>>, filter_by_minutes(df, min_minutes))
    /\ UNCHANGED <<CleanerFrame, df>>

FilterByGamesPlayed ==
    /\ pc = "cleaner"
    /\ \E min_games \in {1, 2} :
          Returns("filter_by_games_played", <<min_games>>, filter_by_games_played(df, min_games))
    /\ UNCHANGED <<CleanerFrame, df>>

HandleMissingValues ==
    /\ pc = "cleaner"
    /\ \E strategy \in {"drop", "fill", "mean"} :
          IF strategy \notin {"drop", "fill"}
          THEN Raises("handle_missing_values", <<strategy, Zero>>, "ValueError")
          ELSE Returns("handle_missing_values", <<strategy, Zero>>,
                       handle_missing_values(df, strategy, Zero))
    /\ UNCHANGED <<CleanerFrame, df>>

NextClean ==
    \/ ValidateRequiredColumns
    \/ ValidatePercentages
    \/ FilterByMinutes
    \/ FilterByGamesPlayed
    \/ HandleMissingValues

SpecClean == InitClean /\ [][NextClean]_vars

(***************************************************************************)
(* The scaler on its own: fit_transform, transform and inverse_transform   *)
(* in any order on one DataScaler('standard')                              *)
(***************************************************************************)
SCALE_COLUMNS == <<"pts_per36", "fg3_pct">>

ScaleRow(a, b) == [c \in Range(SCALE_COLUMNS) |-> IF c = "pts_per36" THEN a ELSE b]

\* rows with a missing, an infinite and a finite rate next to one percentage
ScaleRows == {ScaleRow(a, Q(1, 2)) : a \in {NaN, PInf, NInf, Int2Q(1)}}

ScalerInputs ==
    {[columns |-> SCALE_COLUMNS, rows |-> rows] : rows \in SeqsUpTo(ScaleRows, MaxScaleRows)}

\* a second table of the same columns, to transform or to fit again
ScalerProbe ==
    [columns |-> SCALE_COLUMNS,
     rows |-> <<ScaleRow(Int2Q(2), Zero), ScaleRow(Int2Q(4), Int2Q(1))>>]

\* the handle_infinity and fill_na arguments of a call
ScalerSettings == {<<TRUE, FILL_NA_VALUE>>, <<TRUE, Int2Q(-1)>>, <<FALSE, FILL_NA_VALUE>>}

InitScaler ==
    /\ pc = "scaler"
    /\ df \in ScalerInputs
    /\ client = "none"
    /\ db = FALSE
    /\ data_players = EmptyFrame
    /\ data_teams = EmptyFrame
    /\ df_teams = EmptyFrame
    /\ opponent_data = <<>>
    /\ features_for_clustering = SCALE_COLUMNS
    /\ df_aggregated = EmptyFrame
    /\ df_simple = EmptyFrame
    /\ player_info = EmptyFrame
    /\ features_scaled = EmptyFrame
    /\ features_clean = EmptyFrame
    /\ scaler = Unfitted
    /\ files = <<>>
    /\ err = NoErr
    /\ returned = NoCall

\* everything a call on the scaler leaves alone, the scaler's caller apart
ScalerFrame ==
    <<pc, Mongo, Tables, player_info, files>>

ScalerFitTransform ==
    /\ pc = "scaler"
    /\ \E t \in {df, ScalerProbe}, args \in ScalerSettings :
          IF ScalerRejects(CleanFrame(t, args[1], args[2]))
          THEN /\ returned' = Call("fit_transform", t, args, "none")
               /\ err' = [type |-> "ValueError", at |-> "fit_transform"]
               /\ UNCHANGED <<features_scaled, features_clean, scaler>>
          ELSE \E fitted \in {fit_transform(t, args[1], args[2])} :
                   /\ returned' = Call("fit_transform", t, args, <<fitted.scaled, fitted.clean>>)
                   /\ err' = NoErr
                   /\ features_scaled' = fitted.scaled
                   /\ features_clean' = fitted.clean
                   /\ scaler' = fitted.params
    /\ UNCHANGED ScalerFrame

ScalerTransform ==
    /\ pc = "scaler"
    /\ \E t \in {df, ScalerProbe}, args \in ScalerSettings :
          IF ~scaler.fitted
          THEN /\ returned' = Call("transform", t, args, "none")
               /\ err' = [type |-> "NotFittedError", at |-> "transform"]
               /\ scaler' = scaler
          ELSE IF ScalerRejects(CleanFrame(t, args[1], args[2]))
          THEN /\ returned' = Call("transform", t, args, "none")
               /\ err' = [type |-> "ValueError", at |-> "transform"]
               /\ scaler' = scaler
          ELSE \E done \in {transform(scaler, t, args[1], args[2])} :
                   /\ returned' = Call("transform", t, args, done.scaled)
                   /\ err' = NoErr
                   /\ scaler' = done.params
    /\ UNCHANGED <<ScalerFrame, features_scaled, features_clean>>

\* inverse_transform of the table the last fit_transform returned
ScalerInverseTransform ==
    /\ pc = "scaler"
    /\ IF ~scaler.fitted
       THEN /\ returned' = Call("inverse_transform", features_scaled, <<>>, "none")
            /\ err' = [type |-> "NotFittedError", at |-> "inverse_transform"]
       ELSE /\ returned' = Call("inverse_transform", features_scaled, <<>>,
                                inverse_transform(scaler, features_scaled))
            /\ err' = NoErr
    /\ UNCHANGED <<ScalerFrame, features_scaled, features_clean, scaler>>

NextScaler == ScalerFitTransform \/ ScalerTransform \/ ScalerInverseTransform

SpecScaler == InitScaler /\ [][NextScaler]_vars

(***************************************************************************)
(* Construction of the pipeline, for any configured scaler type, and the   *)
(* run of the pipeline with the standard scaler; the run of a pipeline     *)
(* holding a MinMaxScaler is not followed.                                 *)
(***************************************************************************)
ScalerTypes == {"standard", "minmax", "robust", "Standard", ""}

InitNew ==
    /\ pc = "new"
    /\ client = "none"
    /\ db = FALSE
    /\ data_players = EmptyFrame
    /\ data_teams = EmptyFrame
    /\ df_teams = EmptyFrame
    /\ opponent_data = <<>>
    /\ df = EmptyFrame
    /\ features_for_clustering = <<>>
    /\ df_aggregated = EmptyFrame
    /\ df_simple = EmptyFrame
    /\ player_info = EmptyFrame
    /\ features_scaled = EmptyFrame
    /\ features_clean = EmptyFrame
    /\ scaler = NoScaler
    /\ files = <<>>
    /\ err = NoErr
    /\ returned = NoCall

\* ETLPipeline.__init__: the client, loader, cleaner, engineer and aggregator
\* objects are made without a connection, then DataScaler(scaler_type)
ETLPipelineInit ==
    /\ pc = "new"
    /\ \E scaler_type \in ScalerTypes : \E made \in {DataScaler(scaler_type)} :
          /\ returned' = Call("DataScaler", scaler_type, <<>>, made.scaler)
          /\ scaler' = made.scaler
          /\ IF made.raised # "none"
             THEN err' = [type |-> made.raised, at |-> "__init__"] /\ pc' = "no pipeline"
             ELSE /\ err' = NoErr
                  /\ pc' = IF made.scaler = Unfitted THEN "start" ELSE "start (minmax)"
    /\ UNCHANGED <<Mongo, Tables, player_info, features_scaled, features_clean, files>>

NextNew == ETLPipelineInit \/ Next

SpecNew == InitNew /\ [][NextNew]_vars

(***************************************************************************)
(* MongoDBClient on its own: connect, disconnect and the accessors called  *)
(* in any order.  pc is the outcome of the last connect / disconnect.      *)
(***************************************************************************)
Collections == {"FEB3_players_statistics", "FEB3_teams_statistics"}

\* __init__, lines 25-28
InitMongo == pc = "client: new" /\ NothingYet

\* MongoDBClient as the call finds it
Self == [_client |-> client, _db |-> db]

\* connect, lines 37-42: the ping answered
MongoConnect ==
    /\ pc \in {"client: new", "client: connected", "client: connect failed",
               "client: disconnected"}
    /\ client' = "open"
    /\ db' = TRUE
    /\ returned' = Call("connect", Self, <<>>, TRUE)
    /\ err' = NoErr
    /\ pc' = "client: connected"
    /\ UNCHANGED <<Tables, Outputs, files>>

\* connect, lines 37-45: MongoClient(uri) raised (line 38, nothing assigned),
\* the database lookup raised (line 39, _client assigned) or the ping raised
\* (line 40, _client and _db assigned); the exception is logged and connect
\* returns False
MongoConnectFails ==
    /\ pc \in {"client: new", "client: connected", "client: connect failed",
               "client: disconnected"}
    /\ \E line \in 38..40 :
          /\ client' = IF line > 38 THEN "open" ELSE client
          /\ db' = IF line > 39 THEN TRUE ELSE db
    /\ returned' = Call("connect", Self, <<>>, FALSE)
    /\ err' = NoErr
    /\ pc' = "client: connect failed"
    /\ UNCHANGED <<Tables, Outputs, files>>

\* disconnect, lines 49-51: _client is closed when there is one; _db is kept
MongoDisconnect ==
    /\ pc \in {"client: new", "client: connected", "client: connect failed",
               "client: disconnected"}
    /\ client' = IF client = "none" THEN client ELSE "closed"
    /\ returned' = Call("disconnect", Self, <<>>, "None")
    /\ err' = NoErr
    /\ pc' = "client: disconnected"
    /\ UNCHANGED <<db, Tables, Outputs, files>>

\* lines 64-65, 81-82, 92-93: the guard of db, get_collection, list_collections
\* and, through get_collection, of count_documents and find
Guarded(op, params, result) ==
    /\ returned' = Call(op, Self, params, IF db THEN result ELSE "none")
    /\ err' = IF db THEN NoErr ELSE [type |-> "RuntimeError", at |-> op]

\* a pymongo call on the database: it answers, or pymongo raises its own error
\* (server not reachable, client closed)
Queried(op, params, result) ==
    \/ Guarded(op, params, result)
    \/ /\ db
       /\ returned' = Call(op, Self, params, "none")
       /\ err' = [type |-> "PyMongoError", at |-> op]

\* db, lines 64-66
MongoDb ==
    /\ pc \in {"client: new", "client: connected", "client: connect failed",
               "client: disconnected"}
    /\ Guarded("db", <<>>, "Database")
    /\ UNCHANGED <<pc, Mongo, Tables, Outputs, files>>

\* get_collection, lines 81-83
MongoGetCollection ==
    /\ pc \in {"client: new", "client: connected", "client: connect failed",
               "client: disconnected"}
    /\ \E collection_name \in Collections :
          Guarded("get_collection", <<collection_name>>, "Collection")
    /\ UNCHANGED <<pc, Mongo, Tables, Outputs, files>>

\* list_collections, lines 92-94
MongoListCollections ==
    /\ pc \in {"client: new", "client: connected", "client: connect failed",
               "client: disconnected"}
    /\ Queried("list_collections", <<>>, "names")
    /\ UNCHANGED <<pc, Mongo, Tables, Outputs, files>>

\* count_documents, lines 107-109
MongoCountDocuments ==
    /\ pc \in {"client: new", "client: connected", "client: connect failed",
               "client: disconnected"}
    /\ \E collection_name \in Collections :
          Queried("count_documents", <<collection_name>>, "count")
    /\ UNCHANGED <<pc, Mongo, Tables, Outputs, files>>

\* find, lines 125-132
MongoFind ==
    /\ pc \in {"client: new", "client: connected", "client: connect failed",
               "client: disconnected"}
    /\ \E collection_name \in Collections :
          Queried("find", <<collection_name>>, "documents")
    /\ UNCHANGED <<pc, Mongo, Tables, Outputs, files>>

NextMongo ==
    \/ MongoConnect
    \/ MongoConnectFails
    \/ MongoDisconnect
    \/ MongoDb
    \/ MongoGetCollection
    \/ MongoListCollections
    \/ MongoCountDocuments
    \/ MongoFind

SpecMongo == InitMongo /\ [][NextMongo]_vars

(***************************************************************************)
(* Properties: opponent resolution                                         *)
(***************************************************************************)
\* the team rows of a match in the extracted team table, and in the table
\* carrying team_possessions
TeamRowsOf(m) == SelectSeq(data_teams.rows, LAMBDA r : r["match_feb_id"] = m)
PossessionRowsOf(m) == SelectSeq(df_teams.rows, LAMBDA r : r["match_feb_id"] = m)
PlayedMatches == {data_players.rows[i]["match_feb_id"] : i \in DOMAIN data_players.rows}
MalformedMatches == {m \in PlayedMatches : Len(TeamRowsOf(m)) # 2}
HasLink(m, t) == \E k \in DOMAIN opponent_data :
                    opponent_data[k].match_feb_id = m /\ opponent_data[k].team_feb_id = t
AfterJoin == HasColumn(df, "opponent_possessions") /\ HasColumn(df, "opponent_pts")
TransformReturned == pc \in {"transformed", "loaded", "done"} \/ err.at = "load"
                     \/ (pc = "finally" /\ err = NoErr)

\* C1: in a match with exactly two team rows, every game-row of a player of one
\* of the two teams carries the pts and the team_possessions of the other team.
C1_OpponentIsOtherTeam ==
    AfterJoin =>
        \A i \in DOMAIN df.rows :
            LET r  == df.rows[i]
                tm == PossessionRowsOf(r["match_feb_id"])
            IN  (Len(tm) = 2 /\ \E j \in 1 .. 2 : tm[j]["team_feb_id"] = r["team_feb_id"])
                => \E j \in 1 .. 2 :
                      /\ tm[j]["team_feb_id"] # r["team_feb_id"]
                      /\ r["opponent_pts"] = tm[j]["pts"]
                      /\ r["opponent_possessions"] = tm[j]["team_possessions"]

\* both teams of a two-row match have a joined game-row
C1_Witness ==
    /\ pc = "merged"
    /\ \E i, k \in DOMAIN df.rows :
          /\ df.rows[i]["match_feb_id"] = df.rows[k]["match_feb_id"]
          /\ df.rows[i]["team_feb_id"] # df.rows[k]["team_feb_id"]
          /\ Len(PossessionRowsOf(df.rows[i]["match_feb_id"])) = 2
          /\ ~IsNaN(df.rows[i]["opponent_pts"])
          /\ ~IsNaN(df.rows[k]["opponent_pts"])

\* C2: a match whose team rows are not exactly two gets no opponent link, and
\* transform does not fail over it.
C2_MalformedPairingNotFatal ==
    MalformedMatches # {} =>
        /\ \A k \in DOMAIN opponent_data : opponent_data[k].match_feb_id \notin MalformedMatches
        /\ err.at \notin {"team_possessions", "merge"}

\* C3: with no opponent link in the whole run, transform completes and the
\* clustering features and both feature matrices are without 'der'.
C3_NoOpponentDataCompletes ==
    (NumRows(data_players) > 0 /\ MalformedMatches = PlayedMatches) =>
        /\ err.at \notin {"team_possessions", "merge"}
        /\ TransformReturned =>
              /\ "der" \notin Range(features_for_clustering)
              /\ ~HasColumn(features_scaled, "der")
              /\ ~HasColumn(features_clean, "der")

\* C4: after the join a game-row without an opponent link has both opponent
\* fields missing, and the der computed for it is 0.
C4_UnlinkedRowsStayUnset ==
    AfterJoin =>
        \A i \in DOMAIN df.rows :
            LET r == df.rows[i]
            IN  ~HasLink(r["match_feb_id"], r["team_feb_id"])
                => /\ IsNaN(r["opponent_possessions"])
                   /\ IsNaN(r["opponent_pts"])
                   /\ HasColumn(df, "der") => r["der"] = Zero

\* an engineered table holding an unlinked game-row beside a linked one
C4_Witness ==
    /\ pc = "engineered"
    /\ HasColumn(df, "der")
    /\ \E i, k \in DOMAIN df.rows :
          /\ ~HasLink(df.rows[i]["match_feb_id"], df.rows[i]["team_feb_id"])
          /\ df.rows[i]["der"] = Zero
          /\ HasLink(df.rows[k]["match_feb_id"], df.rows[k]["team_feb_id"])
          /\ df.rows[k]["der"] # Zero

(***************************************************************************)
(* Properties: games-played filter and persistence                         *)
(***************************************************************************)
Qualifying == {p \in PlayerIds : GamesOf(data_players, p) >= MIN_GAMES_THRESHOLD}
Keys(t) == [i \in DOMAIN t.rows |-> <<t.rows[i]["player_feb_id"], t.rows[i]["match_feb_id"]>>]
IdsOf(t) == {t.rows[i]["player_feb_id"] : i \in DOMAIN t.rows}

\* C8: the filter keeps exactly the game-rows of the players with at least
\* min_games rows in the players table, and exactly those players are in the
\* tables transform returns.
C8_FilterByGamesPlayed ==
    /\ pc = "filtered" =>
          Keys(df) = SelectSeq(Keys(data_players), LAMBDA k : k[1] \in Qualifying)
    /\ TransformReturned =>
          /\ IdsOf(player_info) = Qualifying
          /\ IdsOf(df_aggregated) = Qualifying
          /\ NumRows(player_info) = Cardinality(Qualifying)
          /\ NumRows(df_aggregated) = Cardinality(Qualifying)
          /\ NumRows(features_scaled) = Cardinality(Qualifying)
          /\ NumRows(features_clean) = Cardinality(Qualifying)

\* transform returned with one player kept and one player filtered out
C8_Witness ==
    /\ pc = "transformed"
    /\ \E p, q \in IdsOf(data_players) : p \in Qualifying /\ q \notin Qualifying
    /\ \E p \in PlayerIds : GamesOf(data_players, p) = MIN_GAMES_THRESHOLD

\* C9: when run has ended, all three output files are written or none is.
C9_AllOrNothing == pc \in {"done", "failed"} => Len(files) \in {0, 3}

(***************************************************************************)
(* Properties: aggregation                                                 *)
(***************************************************************************)
\* the input game-rows of a player, in table order
RowsOfPlayer(p) == SelectSeq(df.rows, LAMBDA r : r["player_feb_id"] = p)
MinutesOf(p) == [i \in DOMAIN RowsOfPlayer(p) |-> RowsOfPlayer(p)[i]["minutes_played"]]
ValuesOf(p, f) == [i \in DOMAIN RowsOfPlayer(p) |-> RowsOfPlayer(p)[i][f]]
WeightedTerms(p, f) ==
    [i \in DOMAIN RowsOfPlayer(p) |->
        RMul(RowsOfPlayer(p)[i][f], RowsOfPlayer(p)[i]["minutes_played"])]
\* the features asked for that the input has
AskedFeatures == {f \in Range(features_for_clustering) : HasColumn(df, f)}
WeightedDone == pc = "aggregate" /\ df_aggregated # EmptyFrame /\ HasColumn(df, "minutes_played")
SimpleDone == pc = "aggregate" /\ df_simple # EmptyFrame /\ HasColumn(df, "minutes_played")
SameMinutes(p) ==
    \A i \in DOMAIN MinutesOf(p) : MinutesOf(p)[i] = MinutesOf(p)[1] /\ RGt(MinutesOf(p)[i], Zero)

\* C5: in weighted mode the aggregate of a feature is the sum of value times
\* minutes over the player's game-rows, divided by the sum of the minutes.
C5_WeightedMean ==
    WeightedDone =>
        \A k \in DOMAIN df_aggregated.rows : \A f \in AskedFeatures :
            LET p == df_aggregated.rows[k]["player_feb_id"]
            IN  df_aggregated.rows[k][f] = RDiv(SumSeq(WeightedTerms(p, f)), SumSeq(MinutesOf(p)))

\* a player with two games of different minutes and different values
C5_Witness ==
    /\ WeightedDone
    /\ \E k \in DOMAIN df_aggregated.rows :
          LET p == df_aggregated.rows[k]["player_feb_id"]
          IN  /\ Len(RowsOfPlayer(p)) >= 2
              /\ MinutesOf(p)[1] # MinutesOf(p)[2]
              /\ RGt(MinutesOf(p)[1], Zero) /\ RGt(MinutesOf(p)[2], Zero)
              /\ ValuesOf(p, "fg2_pct")[1] # ValuesOf(p, "fg2_pct")[2]
              /\ IsFinite(df_aggregated.rows[k]["fg2_pct"])

\* C6: for a player whose game-rows all have the same positive minutes the two
\* modes agree on every feature; with a single game-row both give its value.
C6_EqualMinutesModesAgree ==
    (WeightedDone /\ SimpleDone) =>
        \A k \in DOMAIN df_aggregated.rows : \A f \in AskedFeatures :
            LET p == df_aggregated.rows[k]["player_feb_id"]
            IN  SameMinutes(p) =>
                   /\ df_simple.rows[k]["player_feb_id"] = p
                   /\ df_aggregated.rows[k][f] = df_simple.rows[k][f]
                   /\ Len(RowsOfPlayer(p)) = 1 => df_aggregated.rows[k][f] = ValuesOf(p, f)[1]

\* one player with several games of equal minutes and unequal values, another
\* player with a single game
C6_Witness ==
    /\ WeightedDone /\ SimpleDone
    /\ \E p, q \in {df_aggregated.rows[k]["player_feb_id"] : k \in DOMAIN df_aggregated.rows} :
          /\ SameMinutes(p) /\ Len(RowsOfPlayer(p)) >= 2
          /\ ValuesOf(p, "fg2_pct")[1] # ValuesOf(p, "fg2_pct")[2]
          /\ SameMinutes(q) /\ Len(RowsOfPlayer(q)) = 1 /\ ValuesOf(q, "fg2_pct")[1] # Zero

\* one row per player of the input, carrying the sum of the player's minutes
OneRowPerPlayer(agg) ==
    /\ Cardinality(IdsOf(df)) = NumRows(agg)
    /\ IdsOf(agg) = IdsOf(df)
    /\ \A k \in DOMAIN agg.rows :
          agg.rows[k]["minutes_played"] = SumSeq(MinutesOf(agg.rows[k]["player_feb_id"]))

\* C7: in both modes the result has exactly one row per player id of the input,
\* and its minutes_played is the sum of that player's minutes.
C7_OneRowPerPlayerTotalMinutes ==
    /\ WeightedDone => OneRowPerPlayer(df_aggregated)
    /\ SimpleDone => OneRowPerPlayer(df_simple)

\* two players, one of them with several games, aggregated in both modes
C7_Witness ==
    /\ WeightedDone /\ SimpleDone
    /\ NumRows(df_aggregated) = 2
    /\ NumRows(df) > 2
    /\ \E k \in DOMAIN df_simple.rows :
          /\ Len(RowsOfPlayer(df_simple.rows[k]["player_feb_id"])) >= 2
          /\ RGt(df_simple.rows[k]["minutes_played"],
                 RowsOfPlayer(df_simple.rows[k]["player_feb_id"])[1]["minutes_played"])

(***************************************************************************)
(* Properties: division by zero in the feature engineer                    *)
(***************************************************************************)
\* the ratio features with the denominator each is computed over
RatioDenominator(r, f) ==
    CASE f = "fg2_pct" -> r["2pa"]
      [] f = "fg3_pct" -> r["3pa"]
      [] f = "ft_pct" -> r["fta"]
      [] f \in {"usage_2p", "usage_3p", "interior_freq", "exterior_freq"} -> r["fga"]
      [] f = "interior_pct" -> RowSum(r, INTERIOR_ZONES_ATTEMPTED)
      [] f = "exterior_pct" -> RowSum(r, EXTERIOR_ZONES_ATTEMPTED)
      [] f = "oer" -> r["possessions"]
      [] f = "true_shooting_pct" ->
            RMul(Int2Q(2), RAdd(r["fga"], RMul(FREE_THROW_POSSESSION_FACTOR, r["fta"])))

RatioFeatures ==
    {"fg2_pct", "fg3_pct", "ft_pct", "usage_2p", "usage_3p", "interior_pct",
     "interior_freq", "exterior_pct", "exterior_freq", "oer", "true_shooting_pct"}

CountingStatsValid(r) ==
    \A c \in Range(RAW_STATS \o ZONE_COLUMNS) : IsFinite(r[c]) /\ RGe(r[c], Zero)

\* C10: every ratio feature of a game-row with non-negative finite counting
\* stats is finite, and is 0 when its denominator is zero or negative.
C10_NoDivisionByZero ==
    pc = "engineered" =>
        \A i \in DOMAIN df.rows : \A f \in RatioFeatures :
            CountingStatsValid(df.rows[i]) =>
                /\ IsFinite(df.rows[i][f])
                /\ ~RGt(RatioDenominator(df.rows[i], f), Zero) => df.rows[i][f] = Zero

\* a game-row with free throws made and none attempted, points scored and a
\* negative possession estimate
C10_Witness ==
    /\ pc = "engineered"
    /\ \E i \in DOMAIN df.rows :
          /\ df.rows[i]["fta"] = Zero /\ RGt(df.rows[i]["ftm"], Zero)
          /\ df.rows[i]["ft_pct"] = Zero
          /\ RGt(Zero, df.rows[i]["possessions"]) /\ RGt(df.rows[i]["pts"], Zero)
          /\ df.rows[i]["oer"] = Zero
          /\ df.rows[i]["true_shooting_pct"] = Zero

(***************************************************************************)
(* Properties: playing time of the game-rows                               *)
(***************************************************************************)
PositiveMinutes(t) ==
    \A i \in DOMAIN t.rows :
        /\ RGt(t.rows[i]["minutes"], Zero)
        /\ RGt(t.rows[i]["minutes"], Int2Q(MIN_MINUTES_THRESHOLD))

PerMinuteRates == {PerName(STATS_TO_NORMALIZE[k]) : k \in DOMAIN STATS_TO_NORMALIZE}

\* C11: every game-row extracted, and every game-row the feature engineer
\* receives, has playing time above zero and above the minimum-minutes
\* threshold, minutes_played is positive and every per-36 rate is finite.
C11_PositivePlayingTime ==
    /\ PositiveMinutes(data_players)
    /\ pc \in {"merged", "filtered", "engineered"} =>
          /\ PositiveMinutes(df)
          /\ filter_by_minutes(df, Int2Q(MIN_MINUTES_THRESHOLD)) = df
    /\ pc = "engineered" =>
          \A i \in DOMAIN df.rows :
              /\ RGt(df.rows[i]["minutes_played"], Zero)
              /\ \A c \in PerMinuteRates : IsFinite(df.rows[i][c])

\* player 2 was listed without playing time in one match and has
\* MIN_GAMES_THRESHOLD - 1 played games: its rows never reach the engineer,
\* the other player's rows do
C11_Witness ==
    /\ pc = "engineered"
    /\ NumRows(df) > 0
    /\ GamesOf(data_players, 2) = MIN_GAMES_THRESHOLD - 1
    /\ 2 \notin IdsOf(df)

(***************************************************************************)
(* Properties: the cleaner                                                 *)
(***************************************************************************)
InUnitInterval(x) == RGe(x, Zero) /\ RLe(x, Int2Q(1))

\* C12: validate_percentages never raises and keeps the rows and columns; in
\* every listed column that is present a value below 0 becomes 0, a value
\* above 1 becomes 1, a value in [0, 1] and a missing value are kept, so
\* every value that is not missing lies in [0, 1]; other columns are kept.
C12_PercentagesClipped ==
    returned.op = "validate_percentages" =>
        /\ err = NoErr
        /\ returned.value.columns = returned.arg.columns
        /\ NumRows(returned.value) = NumRows(returned.arg)
        /\ \A i \in DOMAIN returned.arg.rows : \A c \in Range(returned.arg.columns) :
              LET x == returned.arg.rows[i][c]
                  y == returned.value.rows[i][c]
              IN  IF c \in Range(returned.params[1])
                  THEN /\ IsNaN(x) => IsNaN(y)
                       /\ RLt(x, Zero) => y = Zero
                       /\ RGt(x, Int2Q(1)) => y = Int2Q(1)
                       /\ InUnitInterval(x) => y = x
                       /\ ~IsNaN(y) => InUnitInterval(y)
                  ELSE y = x

\* a table with a negative and an excessive percentage came back with 0 and 1
C12_Witness ==
    /\ returned.op = "validate_percentages"
    /\ NumRows(returned.arg) = 2
    /\ RLt(returned.arg.rows[1]["fg_pct"], Zero)
    /\ RGt(returned.arg.rows[2]["fg_pct"], Int2Q(1))
    /\ returned.value.rows[1]["fg_pct"] = Zero
    /\ returned.value.rows[2]["fg_pct"] = Int2Q(1)

\* C13: after any call on the cleaner the table that was passed is as it was
\* before the call.
C13_CleanerIsPure == returned.op # "none" => df = returned.arg

(***************************************************************************)
(* Properties: the scaler                                                  *)
(***************************************************************************)
\* C14: once fitted, a call that is not fit_transform leaves the fitted
\* statistic as it is, and transform of a table that cleans to the fitted
\* data returns the table fit_transform returned for it.
C14_FitIsReadOnly ==
    [][/\ (scaler.fitted /\ returned'.op # "fit_transform") => scaler' = scaler
       /\ (/\ returned'.op = "transform"
           /\ err' = NoErr
           /\ CleanFrame(returned'.arg, returned'.params[1], returned'.params[2])
                 = features_clean')
          => returned'.value = features_scaled']_vars

\* a scaler fitted on one table has transformed another and holds the
\* statistic of the first
C14_Witness ==
    /\ returned.op = "transform"
    /\ err = NoErr
    /\ returned.arg = ScalerProbe
    /\ scaler = FitStandard(features_clean)
    /\ scaler.mean # FitStandard(ScalerProbe).mean
    /\ returned.value # features_scaled

\* C15: with handle_infinity and a finite fill_na, fit_transform of a table
\* with a row does not raise, and in the clean table it returns every cell is
\* finite: fill_na where the input cell was missing or infinite, the input
\* cell everywhere else.
C15_CleanIsFinite ==
    (/\ returned.op = "fit_transform"
     /\ returned.params[1]
     /\ IsFinite(returned.params[2])
     /\ NumRows(returned.arg) > 0)
    => /\ err = NoErr
       /\ returned.value[2].columns = returned.arg.columns
       /\ NumRows(returned.value[2]) = NumRows(returned.arg)
       /\ \A i \in DOMAIN returned.arg.rows : \A c \in Range(returned.arg.columns) :
             LET x == returned.arg.rows[i][c]
                 y == returned.value[2].rows[i][c]
             IN  /\ IsFinite(y)
                 /\ y = IF IsNaN(x) \/ IsInf(x) THEN returned.params[2] ELSE x

\* a table with a missing and an infinite rate, filled with -1
C15_Witness ==
    /\ returned.op = "fit_transform"
    /\ returned.params = <<TRUE, Int2Q(-1)>>
    /\ NumRows(returned.arg) = 2
    /\ IsNaN(returned.arg.rows[1]["pts_per36"])
    /\ IsInf(returned.arg.rows[2]["pts_per36"])
    /\ returned.value[2].rows[1]["pts_per36"] = Int2Q(-1)
    /\ returned.value[2].rows[2]["pts_per36"] = Int2Q(-1)

\* C16: inverse_transform of the scaled table of a fit gives the clean table
\* of that fit, cell by cell, with the same columns in the same order.
C16_RoundTrip ==
    (returned.op = "inverse_transform" /\ err = NoErr) =>
        /\ returned.arg = features_scaled
        /\ returned.value.columns = features_clean.columns
        /\ NumRows(returned.value) = NumRows(features_clean)
        /\ \A i \in DOMAIN features_clean.rows : \A c \in Range(features_clean.columns) :
              returned.value.rows[i][c] = features_clean.rows[i][c]

\* the round trip of a table with two rates around a mean that is not 0 and a
\* column without variance, one of its cells filled
C16_Witness ==
    /\ returned.op = "inverse_transform"
    /\ err = NoErr
    /\ NumRows(features_clean) = 2
    /\ features_clean.rows[1]["pts_per36"] # features_clean.rows[2]["pts_per36"]
    /\ scaler.mean["pts_per36"] # Zero
    /\ scaler.var["fg3_pct"] = Zero
    /\ \E i \in DOMAIN df.rows : IsNaN(df.rows[i]["pts_per36"])
    /\ features_scaled.rows[1]["pts_per36"].dev # Zero

(***************************************************************************)
(* Properties: construction                                                *)
(***************************************************************************)
\* C17: a scaler type other than 'standard' and 'minmax' makes the
\* construction raise ValueError: there is no scaler and no pipeline, no
\* connection was opened, nothing was read, fitted or written, then or later;
\* with 'standard' the pipeline starts with a scaler that is not fitted.
C17_UnsupportedScalerFails ==
    /\ (returned.op = "DataScaler" /\ returned.arg \notin {"standard", "minmax"}) =>
          /\ err = [type |-> "ValueError", at |-> "__init__"]
          /\ pc = "no pipeline"
          /\ scaler = NoScaler
          /\ client = "none" /\ db = FALSE
          /\ files = <<>>
          /\ data_players = EmptyFrame /\ data_teams = EmptyFrame
          /\ features_scaled = EmptyFrame /\ features_clean = EmptyFrame
    /\ (returned.op = "DataScaler" /\ returned.arg \in {"standard", "minmax"}) =>
          /\ scaler # NoScaler
          /\ pc \in {"start", "start (minmax)"} => (err = NoErr /\ ~scaler.fitted)

\* the construction with the type 'robust' has failed
C17_Witness ==
    /\ returned.op = "DataScaler"
    /\ returned.arg = "robust"
    /\ pc = "no pipeline"
    /\ err.type = "ValueError"

(***************************************************************************)
(* Properties: the tables transform returns and load writes                *)
(***************************************************************************)
\* C18: the scaled and the clean table have the rows of the aggregated
\* table, in its order, and the columns of the clustering feature list, in
\* its order: row i holds the cleaned and the scaled features of the player
\* of aggregated row i, and row i of the scaled file carries that player's
\* id and name.
C18_RowsAligned ==
    /\ TransformReturned =>
          /\ NumRows(features_scaled) = NumRows(df_aggregated)
          /\ NumRows(features_clean) = NumRows(df_aggregated)
          /\ NumRows(player_info) = NumRows(df_aggregated)
          /\ features_scaled.columns = features_for_clustering
          /\ features_clean.columns = features_for_clustering
          /\ \A i \in DOMAIN df_aggregated.rows :
                /\ player_info.rows[i]["player_feb_id"] = df_aggregated.rows[i]["player_feb_id"]
                /\ player_info.rows[i]["player_name"] = df_aggregated.rows[i]["player_name"]
                /\ \A c \in Range(features_for_clustering) :
                      /\ features_clean.rows[i][c]
                            = CleanCell(df_aggregated.rows[i][c], HANDLE_INFINITY, FILL_NA_VALUE)
                      /\ features_scaled.rows[i][c].dev
                            = RSub(features_clean.rows[i][c], scaler.mean[c])
    /\ files # <<>> =>
          /\ files[1].name = OUTPUT_SCALED_FILE
          /\ files[1].table.columns = <<"player_feb_id", "player_name">> \o features_for_clustering
          /\ NumRows(files[1].table) = NumRows(df_aggregated)
          /\ \A i \in DOMAIN df_aggregated.rows :
                /\ files[1].table.rows[i]["player_feb_id"] = df_aggregated.rows[i]["player_feb_id"]
                /\ files[1].table.rows[i]["player_name"] = df_aggregated.rows[i]["player_name"]
                /\ \A c \in Range(features_for_clustering) :
                      files[1].table.rows[i][c] = features_scaled.rows[i][c]

\* the scaled file of two players whose scaled features differ
C18_Witness ==
    /\ files # <<>>
    /\ NumRows(df_aggregated) = 2
    /\ df_aggregated.rows[1]["player_feb_id"] # df_aggregated.rows[2]["player_feb_id"]
    /\ features_scaled.rows[1] # features_scaled.rows[2]
    /\ \E c \in Range(features_for_clustering) :
          files[1].table.rows[1][c] # files[1].table.rows[2][c]

(***************************************************************************)
(* Properties: possessions                                                 *)
(***************************************************************************)
\* p = fga + 0.44 * fta - orb + tov for the whole-number counts of row r, in
\* hundredths: 100 p = 100 fga + 44 fta - 100 orb + 100 tov
IsPossessionsOf(p, r) ==
    /\ \A c \in {"fga", "fta", "orb", "tov"} : r[c][2] = 1
    /\ p[2] > 0
    /\ 100 * p[1] = p[2] * (100 * r["fga"][1] + 44 * r["fta"][1]
                              - 100 * r["orb"][1] + 100 * r["tov"][1])

\* C19: the possessions of every player game-row and the team_possessions of
\* every team row are fga + 0.44 * fta - orb + tov of that row, negative
\* values included; fga 10, fta 5, orb 2, tov 3 give 13.2.
C19_PossessionFormula ==
    /\ HasColumn(df, "possessions") =>
          \A i \in DOMAIN df.rows :
              /\ IsPossessionsOf(df.rows[i]["possessions"], df.rows[i])
              /\ (/\ df.rows[i]["fga"] = Int2Q(10) /\ df.rows[i]["fta"] = Int2Q(5)
                  /\ df.rows[i]["orb"] = Int2Q(2) /\ df.rows[i]["tov"] = Int2Q(3))
                 => df.rows[i]["possessions"] = <<66, 5>>
    /\ HasColumn(df_teams, "team_possessions") =>
          \A i \in DOMAIN df_teams.rows :
              IsPossessionsOf(df_teams.rows[i]["team_possessions"], df_teams.rows[i])

\* game-rows with 13.2 and with a negative number of possessions, and a team
\* row with a negative number of team possessions
C19_Witness ==
    /\ pc = "engineered"
    /\ \E i \in DOMAIN df.rows : df.rows[i]["possessions"] = <<66, 5>>
    /\ \E i \in DOMAIN df.rows : RLt(df.rows[i]["possessions"], Zero)
    /\ \E i \in DOMAIN df_teams.rows : RLt(df_teams.rows[i]["team_possessions"], Zero)

(***************************************************************************)
(* Properties: defensive efficiency rating                                 *)
(***************************************************************************)
\* d is 100 * pts / poss when poss > 0 and 0 when poss <= 0
IsDerOf(d, pts, poss) ==
    /\ RGt(poss, Zero) => RMul(d, poss) = RMul(Int2Q(100), pts)
    /\ RLe(poss, Zero) => d = Zero

\* C20: the engineer adds der exactly when the table has both
\* opponent_possessions and opponent_pts; der is 100 * opponent_pts /
\* opponent_possessions when the possessions are positive and 0 when they are
\* zero or negative; in a match with exactly two team rows A and B the der
\* of a game-row of team A is that of the pts and team_possessions of B.
C20_DefensiveRating ==
    pc = "engineered" =>
        /\ HasColumn(df, "der") <=> AfterJoin
        /\ HasColumn(df, "der") =>
              \A i \in DOMAIN df.rows :
                  LET r  == df.rows[i]
                      tm == PossessionRowsOf(r["match_feb_id"])
                  IN  /\ IsDerOf(r["der"], r["opponent_pts"], r["opponent_possessions"])
                      /\ Len(tm) = 2 =>
                            \A j \in 1 .. 2 :
                                tm[j]["team_feb_id"] = r["team_feb_id"] =>
                                    IsDerOf(r["der"], tm[3 - j]["pts"],
                                            tm[3 - j]["team_possessions"])

\* a run in which one team's game-rows get a positive der and the other
\* team's get 0, the opponent's possessions being negative
C20_Witness ==
    /\ pc = "engineered"
    /\ \E i, k \in DOMAIN df.rows :
          /\ df.rows[i]["match_feb_id"] = df.rows[k]["match_feb_id"]
          /\ Len(PossessionRowsOf(df.rows[i]["match_feb_id"])) = 2
          /\ RGt(df.rows[i]["opponent_possessions"], Zero)
          /\ RGt(df.rows[i]["der"], Zero)
          /\ RLt(df.rows[k]["opponent_possessions"], Zero)
          /\ RGt(df.rows[k]["opponent_pts"], Zero)
          /\ df.rows[k]["der"] = Zero

(***************************************************************************)
(* Properties: required columns                                            *)
(***************************************************************************)
\* the positions of the required columns the table lacks
AbsentAt(t, required) == {k \in DOMAIN required : required[k] \notin Range(t.columns)}

\* the j-th smallest position of S
NthOf(S, j) == CHOOSE k \in S : Cardinality({i \in S : i < k}) = j - 1

\* C21: validate_required_columns raises ValueError naming every required
\* column the table lacks, and only those, in the order required, when one
\* is lacking; it returns True without error when none is.
C21_MissingColumnsNamed ==
    returned.op = "validate_required_columns" =>
        LET required == returned.params[1]
            absent   == AbsentAt(returned.arg, required)
        IN  IF absent # {}
            THEN /\ err = [type |-> "ValueError", at |-> "validate_required_columns"]
                 /\ Len(returned.value) = Cardinality(absent)
                 /\ \A j \in DOMAIN returned.value :
                       returned.value[j] = required[NthOf(absent, j)]
            ELSE err = NoErr /\ returned.value = TRUE

\* three columns required of a table that has neither 'weight' nor 'age'
C21_Witness ==
    /\ returned.op = "validate_required_columns"
    /\ returned.params[1] = <<"weight", "minutes", "age">>
    /\ HasColumn(returned.arg, "minutes")
    /\ err.type = "ValueError"
    /\ returned.value = <<"weight", "age">>

(***************************************************************************)
(* Properties: the stages of one run                                       *)
(***************************************************************************)
\* the positions of a run that meets no error, in order
StageOrder ==
    <<"start", "connected", "extracted", "possessions", "resolved", "merged", "filtered",
      "engineered", "aggregated", "transformed", "loaded", "finally", "done">>

StageRank(p) == CHOOSE k \in DOMAIN StageOrder : StageOrder[k] = p

\* the positions inside the try block of run
InTry(p) == p \in Range(SubSeq(StageOrder, 2, 11))

\* one step of run moves forward: to the next position, to the next file of
\* load, or out of the run with an error
StepsForward ==
    /\ pc' # pc =>
          \/ /\ pc \in Range(StageOrder) /\ pc' \in Range(StageOrder)
             /\ StageRank(pc') = StageRank(pc) + 1
             /\ err' = err
          \/ pc = "start" /\ pc' = "failed" /\ err'.at = "connect"
          \/ InTry(pc) /\ pc' = "finally" /\ err = NoErr /\ err' # NoErr
          \/ pc = "finally" /\ pc' = "failed" /\ err' = err
    /\ pc' = pc => pc = "transformed" /\ Len(files') = Len(files) + 1

\* what a stage produces is written by that stage only
WrittenByOwnStage ==
    /\ (data_players' # data_players \/ data_teams' # data_teams) => pc = "connected"
    /\ df_teams' # df_teams => pc = "extracted"
    /\ opponent_data' # opponent_data => pc = "possessions"
    /\ df' # df => pc \in {"extracted", "resolved", "merged", "filtered"}
    /\ (df_aggregated' # df_aggregated \/ features_for_clustering' # features_for_clustering)
          => pc = "engineered"
    /\ Outputs' # Outputs => pc = "aggregated"
    /\ files' # files => pc = "transformed"

\* nothing has been extracted, transformed or loaded
NoStageRan ==
    /\ data_players = EmptyFrame /\ data_teams = EmptyFrame
    /\ df_teams = EmptyFrame /\ opponent_data = <<>> /\ df = EmptyFrame
    /\ df_aggregated = EmptyFrame /\ player_info = EmptyFrame
    /\ features_scaled = EmptyFrame /\ files = <<>>

\* C22: within one run the stages execute strictly forward and at most once
\* each, with no retry: connect, extract, opponent resolution, games-played
\* filter, feature engineering, aggregation, scaling, load; a stage starts
\* only after the previous one has completed, and when connect fails run
\* raises without executing extract, transform or load.
C22_StagesForwardOnce ==
    [][/\ StepsForward
       /\ WrittenByOwnStage
       /\ err'.at = "connect" => pc' = "failed" /\ NoStageRan']_vars

\* a run that went through every stage and returned
C22_Witness ==
    /\ pc = "done"
    /\ err = NoErr
    /\ Len(files) = 3
    /\ NumRows(data_players) > 0
    /\ opponent_data # <<>>
    /\ NumRows(features_scaled) > 0

(***************************************************************************)
(* Properties: the database client of a run                                *)
(***************************************************************************)
\* C23: once run has connected, the client is disconnected exactly once
\* before run returns or propagates an error, whichever of extract, transform
\* or load fails, and the error of the failing stage reaches the caller
\* unchanged.
C23_DisconnectedOnce ==
    [][/\ client # "closed"
       /\ client' # client =>
             \/ pc = "start" /\ client = "none" /\ client' = "open"
             \/ pc = "finally" /\ client = "open" /\ client' = "closed"
       /\ (pc' \in {"done", "failed"} /\ pc # "start") => client' = "closed"
       /\ pc' = "done" => err' = NoErr
       /\ err # NoErr => err' = err
       /\ (pc' = "failed" /\ pc # "start") => err' = err /\ err # NoErr]_vars

\* load failed after two files: the client is closed and the OSError is the
\* error of the run
C23_Witness ==
    /\ pc = "failed"
    /\ err = [type |-> "OSError", at |-> "load"]
    /\ Len(files) = 2
    /\ client = "closed"

(***************************************************************************)
(* Properties: access without a connection                                 *)
(***************************************************************************)
Accessors == {"db", "get_collection", "list_collections", "find", "count_documents"}

\* C24: in every state where no connect() has returned True (never called,
\* or the last connect() returned False) or disconnect() has been called
\* since, db, get_collection, list_collections, find and count_documents
\* raise RuntimeError.
C24_AccessRefused ==
    (returned.op \in Accessors /\ pc # "client: connected") =>
        err = [type |-> "RuntimeError", at |-> returned.op]

\* get_collection after connect() and disconnect() returns the collection
C24_AccessAfterDisconnect ==
    /\ pc = "client: disconnected"
    /\ returned.op = "get_collection"
    /\ returned.arg = [_client |-> "closed", _db |-> TRUE]
    /\ returned.value = "Collection"
    /\ err = NoErr

(***************************************************************************)
(* Properties: the opponent join keeps the game-rows                       *)
(***************************************************************************)
\* the game-row r without the two opponent fields
WithoutOpponent(r) == [c \in Range(PLAYER_COLUMNS) |-> r[c]]

\* how many rows of the sequence rows equal r
CountOf(rows, r) == Cardinality({i \in DOMAIN rows : rows[i] = r})

\* the game-rows of the joined table, opponent fields dropped
JoinedGameRows == [i \in DOMAIN df.rows |-> WithoutOpponent(df.rows[i])]

\* C25: the opponent join neither duplicates nor drops game-rows: the table
\* after the join holds the same multiset of (player, match) rows as the
\* players table before it.
C25_JoinKeepsRows ==
    (pc = "merged" /\ AfterJoin) =>
        /\ NumRows(df) = NumRows(data_players)
        /\ \A i \in DOMAIN data_players.rows :
              CountOf(JoinedGameRows, data_players.rows[i])
                  = CountOf(data_players.rows, data_players.rows[i])
        /\ \A j, k \in DOMAIN opponent_data :
              (/\ opponent_data[j].match_feb_id = opponent_data[k].match_feb_id
               /\ opponent_data[j].team_feb_id = opponent_data[k].team_feb_id) => j = k

\* a join in which some game-rows found their link and some found none
C25_Witness ==
    /\ pc = "merged"
    /\ NumRows(df) > MIN_GAMES_THRESHOLD
    /\ \E i \in DOMAIN df.rows : IsNaN(df.rows[i]["opponent_pts"])
    /\ \E i \in DOMAIN df.rows : ~IsNaN(df.rows[i]["opponent_pts"])

(***************************************************************************)
(* Properties: the weighted aggregate as a convex combination              *)
(***************************************************************************)
\* the weighted aggregation has run: on its own, or as the stage of a run
WeightedAggregated == WeightedDone \/ pc = "aggregated"

\* every game-row of the player has positive minutes
AllMinutesPositive(p) == \A i \in DOMAIN MinutesOf(p) : RGt(MinutesOf(p)[i], Zero)

\* x lies between the smallest and the largest of the values
Between(x, values) ==
    /\ \E i \in DOMAIN values : RLe(values[i], x)
    /\ \E j \in DOMAIN values : RLe(x, values[j])

\* C26: for every player whose game-rows all have positive minutes_played and
\* for every feature, the weighted aggregate lies between the minimum and the
\* maximum of the player's per-game values; a feature within [0, 1] in every
\* game-row is within [0, 1] in the aggregated table.
C26_ConvexCombination ==
    WeightedAggregated =>
        \A k \in DOMAIN df_aggregated.rows : \A f \in AskedFeatures :
            LET p == df_aggregated.rows[k]["player_feb_id"]
            IN  AllMinutesPositive(p) =>
                   /\ Between(df_aggregated.rows[k][f], ValuesOf(p, f))
                   /\ (\A i \in DOMAIN ValuesOf(p, f) : InUnitInterval(ValuesOf(p, f)[i]))
                         => InUnitInterval(df_aggregated.rows[k][f])

\* a player with games of different positive minutes and different values:
\* the aggregate is strictly inside the range of the per-game values
C26_Witness ==
    /\ WeightedDone
    /\ \E k \in DOMAIN df_aggregated.rows :
          LET p == df_aggregated.rows[k]["player_feb_id"]
              x == df_aggregated.rows[k]["fg2_pct"]
          IN  /\ AllMinutesPositive(p)
              /\ \E i, j \in DOMAIN ValuesOf(p, "fg2_pct") :
                    /\ RLt(ValuesOf(p, "fg2_pct")[i], x)
                    /\ RLt(x, ValuesOf(p, "fg2_pct")[j])
                    /\ MinutesOf(p)[i] # MinutesOf(p)[j]
              /\ InUnitInterval(x)
====
